---- MODULE Spec2Model ----
(***************************************************************************)
(* Alert evaluation engine of alerts/alert_manager.py (class AlertManager). *)
(* Floats are modelled by integers, f-strings by string concatenation or by *)
(* records of their parts, dicts by functions with a growing DOMAIN.        *)
(***************************************************************************)
EXTENDS Integers, Sequences, FiniteSets, TLC

VARIABLES
    config,               \* self.config
    cooldown,             \* self.cooldown
    call_refractory_period, \* self.call_refractory_period
    monitor_enabled,      \* self.monitor_enabled
    twilio_config,        \* self.twilio_config: "ok" (complete) or "missing"
    last_profit,          \* self.last_profit: key -> level
    last_triggered,       \* self.last_triggered: key -> time
    last_call_triggered,  \* self.last_call_triggered: key -> time
    now,                  \* time.time()
    pc,                   \* position of check_alerts
    todo,                 \* positions / alerts still to visit in the running loop
    pos,                  \* loop variable of "for pos in positions"
    aggregated_alerts,    \* local list of check_alerts
    ev,                   \* the last call made: its arguments, pre-state and result
    hist,                 \* history per profit key: levels of the messages emitted
    emitted,              \* history: key -> time of the last message emitted under it
    calls,                \* history: key -> time of the last successful transport send
    env,                  \* the environment the engine runs in
    cd0,                  \* history: self.cooldown has been 0 since construction
    owner,                \* history: key -> the conditions whose evaluation wrote it
    sync,                 \* history: every check_blast_alert so far ran at the time
                          \* of the check_swing_alert of the same turn of the loop
    cyc,                  \* history of the running cycle: whether it started from
                          \* the empty state, and the messages returned to it with
                          \* the place of each call
    od                    \* a second invocation of check_alerts on the same object,
                          \* from another thread: its position, its locals and the
                          \* record of its calls

vars == <<config, cooldown, call_refractory_period, monitor_enabled, twilio_config,
          last_profit, last_triggered, last_call_triggered, now, pc, todo, pos,
          aggregated_alerts, ev, hist, emitted, calls, env, cd0, owner, sync, cyc,
          od>>

(***************************************************************************)
(* Bounds of the model.                                                    *)
(***************************************************************************)
StartTime == 2       \* time.time() at construction; not below any cooldown
Horizon == 2         \* the clock runs from StartTime to StartTime + Horizon
MaxPositions == 1    \* rows read_positions() returns in one cycle, at most
MaxAlerts == 2       \* rows get_alerts() returns in one cycle, at most

(***************************************************************************)
(* Values of record fields: a number, a string that float() rejects, None, *)
(* or a key that is missing from the dict.                                  *)
(***************************************************************************)
Num(n) == [t |-> "num", v |-> n]
BadV == [t |-> "bad", v |-> 0]
NoneV == [t |-> "none", v |-> 0]
MissingV == [t |-> "missing", v |-> 0]

\* d.get(k, default) of a field: the default only replaces a missing key
GetField(f, default) == IF f.t = "missing" THEN Num(default) ELSE f

\* float(x): ok is FALSE where float() raises
Float(f) == IF f.t = "num" THEN [ok |-> TRUE, v |-> f.v] ELSE [ok |-> FALSE, v |-> 0]

\* dict.get(k, default) and d[k] = v on the state maps
Get(d, k, default) == IF k \in DOMAIN d THEN d[k] ELSE default
Put(d, k, v) == [x \in (DOMAIN d) \cup {k} |-> IF x = k THEN v ELSE d[x]]
EmptyDict == [x \in {} |-> 0]

\* str.upper() on the asset codes and conditions the model uses
Upper(s) ==
    CASE s = "btc" -> "BTC"
      [] s = "eth" -> "ETH"
      [] s = "above" -> "ABOVE"
      [] s = "below" -> "BELOW"
      [] s = "low" -> "LOW"
      [] s = "medium" -> "MEDIUM"
      [] s = "high" -> "HIGH"
      [] OTHER -> s

\* str.capitalize() on the position types the model uses
Capitalize(s) ==
    CASE s = "LONG" -> "Long"
      [] s = "long" -> "Long"
      [] s = "SHORT" -> "Short"
      [] s = "short" -> "Short"
      [] OTHER -> s

\* AlertManager.ASSET_FULL_NAMES.get(code, code)
ASSET_FULL_NAMES(code) ==
    CASE code = "BTC" -> "Bitcoin"
      [] code = "ETH" -> "Ethereum"
      [] code = "SOL" -> "Solana"
      [] OTHER -> code

\* pos.get("asset_type", "???").upper(); a missing key is the string "<missing>"
AssetCode(rec, default) ==
    Upper(IF rec.asset_type = "<missing>" THEN default ELSE rec.asset_type)

\* pos.get("position_id") or pos.get("id") or "unknown"; "" is a missing or empty id
PositionId(rec) ==
    IF rec.position_id # "" THEN rec.position_id
    ELSE IF rec.id # "" THEN rec.id
    ELSE "unknown"

NoMsg == [kind |-> ""]
Truthy(m) == m.kind # ""

level_order == [none |-> 0, low |-> 1, medium |-> 2, high |-> 3]
LevelOrder(l) == IF l \in DOMAIN level_order THEN level_order[l] ELSE 0

(***************************************************************************)
(* Alert keys (the f-strings of the evaluators).                           *)
(***************************************************************************)
AssetFull(rec, default) == ASSET_FULL_NAMES(AssetCode(rec, default))

ProfitKey(rec) ==
    "profit-" \o AssetFull(rec, "???") \o "-" \o Capitalize(rec.position_type)
        \o "-" \o PositionId(rec)

\* the travel key without the band
TravelKey_noband(rec, alert_level) ==
    AssetFull(rec, "???") \o "-" \o Capitalize(rec.position_type) \o "-"
        \o PositionId(rec) \o "-travel"

TravelKey(rec, alert_level) ==
    AssetFull(rec, "???") \o "-" \o Capitalize(rec.position_type) \o "-"
        \o PositionId(rec) \o "-travel-" \o alert_level

SwingKey(rec) ==
    "swing-" \o AssetFull(rec, "???") \o "-" \o Capitalize(rec.position_type)
        \o "-" \o PositionId(rec)

BlastKey(rec) ==
    "blast-" \o AssetFull(rec, "???") \o "-" \o Capitalize(rec.position_type)
        \o "-" \o PositionId(rec)

PriceKey(alert) ==
    "price-alert-" \o AssetFull(alert, "BTC") \o "-" \o PositionId(alert)

(***************************************************************************)
(* check_profit                                                            *)
(***************************************************************************)
\* profit_val = float(raw_profit) if raw_profit is not None else 0.0
ProfitVal(rec) ==
    IF rec.profit.t \in {"none", "missing"} THEN [ok |-> TRUE, v |-> 0]
    ELSE Float(rec.profit)

\* CurrentLevel with "<=" for "<": each boundary falls to the lower level
CurrentLevel_le(profit_val, low_thresh, med_thresh, high_thresh) ==
    IF profit_val <= low_thresh THEN "none"
    ELSE IF profit_val <= med_thresh THEN "low"
    ELSE IF profit_val <= high_thresh THEN "medium"
    ELSE "high"

\* the if-chain on the thresholds; "none" stands for its early return
CurrentLevel(profit_val, low_thresh, med_thresh, high_thresh) ==
    IF profit_val < low_thresh THEN "none"
    ELSE IF profit_val < med_thresh THEN "low"
    ELSE IF profit_val < high_thresh THEN "medium"
    ELSE "high"

ProfitMsg(rec, profit_val, current_level) ==
    [kind |-> "Profit ALERT", asset |-> AssetFull(rec, "???"),
     ptype |-> Capitalize(rec.position_type), value |-> profit_val,
     level |-> Upper(current_level)]

\* ProfitEscalation looking the stored level up under the position id, not the key
ProfitEscalation_wrongkey(rec, profit_val, current_level, cd, lp, lt, t) ==
    LET profit_key == ProfitKey(rec)
        last_level == Get(lp, PositionId(rec), "none")
        last_time == Get(lt, profit_key, 0)
    IN  IF level_order[current_level] <= LevelOrder(last_level)
        THEN [ret |-> NoMsg, last_profit |-> Put(lp, profit_key, current_level),
              last_triggered |-> lt]
        ELSE IF t - last_time < cd
        THEN [ret |-> NoMsg, last_profit |-> Put(lp, profit_key, current_level),
              last_triggered |-> lt]
        ELSE [ret |-> ProfitMsg(rec, profit_val, current_level),
              last_profit |-> Put(lp, profit_key, current_level),
              last_triggered |-> Put(lt, profit_key, t)]

\* ProfitEscalation leaving last_profit alone when the cooldown suppresses the message
ProfitEscalation_noadvance(rec, profit_val, current_level, cd, lp, lt, t) ==
    LET profit_key == ProfitKey(rec)
        last_level == Get(lp, profit_key, "none")
        last_time == Get(lt, profit_key, 0)
    IN  IF level_order[current_level] <= LevelOrder(last_level)
        THEN [ret |-> NoMsg, last_profit |-> Put(lp, profit_key, current_level),
              last_triggered |-> lt]
        ELSE IF t - last_time < cd
        THEN [ret |-> NoMsg, last_profit |-> lp, last_triggered |-> lt]
        ELSE [ret |-> ProfitMsg(rec, profit_val, current_level),
              last_profit |-> Put(lp, profit_key, current_level),
              last_triggered |-> Put(lt, profit_key, t)]

\* ProfitEscalation not writing last_triggered when it returns the message
ProfitEscalation_nostamp(rec, profit_val, current_level, cd, lp, lt, t) ==
    LET profit_key == ProfitKey(rec)
        last_level == Get(lp, profit_key, "none")
        last_time == Get(lt, profit_key, 0)
    IN  IF level_order[current_level] <= LevelOrder(last_level)
        THEN [ret |-> NoMsg, last_profit |-> Put(lp, profit_key, current_level),
              last_triggered |-> lt]
        ELSE IF t - last_time < cd
        THEN [ret |-> NoMsg, last_profit |-> Put(lp, profit_key, current_level),
              last_triggered |-> lt]
        ELSE [ret |-> ProfitMsg(rec, profit_val, current_level),
              last_profit |-> Put(lp, profit_key, current_level),
              last_triggered |-> lt]

\* ProfitEscalation without the test of the cooldown
ProfitEscalation_nocooldown(rec, profit_val, current_level, cd, lp, lt, t) ==
    LET profit_key == ProfitKey(rec)
        last_level == Get(lp, profit_key, "none")
    IN  IF level_order[current_level] <= LevelOrder(last_level)
        THEN [ret |-> NoMsg, last_profit |-> Put(lp, profit_key, current_level),
              last_triggered |-> lt]
        ELSE [ret |-> ProfitMsg(rec, profit_val, current_level),
              last_profit |-> Put(lp, profit_key, current_level),
              last_triggered |-> Put(lt, profit_key, t)]

\* ProfitEscalation with "<" for "<=" in the comparison of the levels
ProfitEscalation_lt(rec, profit_val, current_level, cd, lp, lt, t) ==
    LET profit_key == ProfitKey(rec)
        last_level == Get(lp, profit_key, "none")
        last_time == Get(lt, profit_key, 0)
    IN  IF level_order[current_level] < LevelOrder(last_level)
        THEN [ret |-> NoMsg, last_profit |-> Put(lp, profit_key, current_level),
              last_triggered |-> lt]
        ELSE IF t - last_time < cd
        THEN [ret |-> NoMsg, last_profit |-> Put(lp, profit_key, current_level),
              last_triggered |-> lt]
        ELSE [ret |-> ProfitMsg(rec, profit_val, current_level),
              last_profit |-> Put(lp, profit_key, current_level),
              last_triggered |-> Put(lt, profit_key, t)]

\* ProfitEscalation keeping the highest level reached: a level that is not above
\* the stored one is not stored
ProfitEscalation_max(rec, profit_val, current_level, cd, lp, lt, t) ==
    LET profit_key == ProfitKey(rec)
        last_level == Get(lp, profit_key, "none")
        last_time == Get(lt, profit_key, 0)
    IN  IF level_order[current_level] <= LevelOrder(last_level)
        THEN [ret |-> NoMsg, last_profit |-> lp, last_triggered |-> lt]
        ELSE IF t - last_time < cd
        THEN [ret |-> NoMsg, last_profit |-> Put(lp, profit_key, current_level),
              last_triggered |-> lt]
        ELSE [ret |-> ProfitMsg(rec, profit_val, current_level),
              last_profit |-> Put(lp, profit_key, current_level),
              last_triggered |-> Put(lt, profit_key, t)]

\* the part of check_profit after the level is known
ProfitEscalation(rec, profit_val, current_level, cd, lp, lt, t) ==
    LET profit_key == ProfitKey(rec)
        last_level == Get(lp, profit_key, "none")
        last_time == Get(lt, profit_key, 0)
    IN  IF level_order[current_level] <= LevelOrder(last_level)
        THEN [ret |-> NoMsg, last_profit |-> Put(lp, profit_key, current_level),
              last_triggered |-> lt]
        ELSE IF t - last_time < cd
        THEN [ret |-> NoMsg, last_profit |-> Put(lp, profit_key, current_level),
              last_triggered |-> lt]
        ELSE [ret |-> ProfitMsg(rec, profit_val, current_level),
              last_profit |-> Put(lp, profit_key, current_level),
              last_triggered |-> Put(lt, profit_key, t)]

\* ProfitLevel without the test of the enabled flag
ProfitLevel_ignore_enabled(rec, cfg) ==
    LET profit_val == ProfitVal(rec)
        profit_config == cfg.alert_ranges.profit_ranges
        low_thresh == Float(GetField(profit_config.low, 25))
        med_thresh == Float(GetField(profit_config.medium, 50))
        high_thresh == Float(GetField(profit_config.high, 75))
    IN  IF ~profit_val.ok THEN "skip"
        ELSE IF profit_val.v <= 0 THEN "skip"
        ELSE IF ~(low_thresh.ok /\ med_thresh.ok /\ high_thresh.ok) THEN "skip"
        ELSE CurrentLevel(profit_val.v, low_thresh.v, med_thresh.v, high_thresh.v)

\* ProfitLevel with the default in the place of a threshold that is not a number
ProfitLevel_lenient(rec, cfg) ==
    LET profit_val == ProfitVal(rec)
        profit_config == cfg.alert_ranges.profit_ranges
        low_thresh == Float(GetField(profit_config.low, 25))
        med_thresh == Float(GetField(profit_config.medium, 50))
        high_thresh == Float(GetField(profit_config.high, 75))
    IN  IF ~profit_val.ok THEN "skip"
        ELSE IF profit_val.v <= 0 THEN "skip"
        ELSE IF ~profit_config.enabled THEN "skip"
        ELSE CurrentLevel(profit_val.v,
                          IF low_thresh.ok THEN low_thresh.v ELSE 25,
                          IF med_thresh.ok THEN med_thresh.v ELSE 50,
                          IF high_thresh.ok THEN high_thresh.v ELSE 75)

\* the level check_profit reaches for a record; "skip" stands for the returns
\* before the thresholds are compared, "none" for the return below the low one
ProfitLevel(rec, cfg) ==
    LET profit_val == ProfitVal(rec)
        profit_config == cfg.alert_ranges.profit_ranges
        low_thresh == Float(GetField(profit_config.low, 25))
        med_thresh == Float(GetField(profit_config.medium, 50))
        high_thresh == Float(GetField(profit_config.high, 75))
    IN  IF ~profit_val.ok THEN "skip"
        ELSE IF profit_val.v <= 0 THEN "skip"
        ELSE IF ~profit_config.enabled THEN "skip"
        ELSE IF ~(low_thresh.ok /\ med_thresh.ok /\ high_thresh.ok) THEN "skip"
        ELSE CurrentLevel(profit_val.v, low_thresh.v, med_thresh.v, high_thresh.v)

\* check_profit storing "none" when the profit is below the low threshold
check_profit_reset(rec, cfg, cd, lp, lt, t) ==
    LET current_level == ProfitLevel(rec, cfg)
    IN  IF current_level = "skip"
        THEN [ret |-> NoMsg, last_profit |-> lp, last_triggered |-> lt]
        ELSE IF current_level = "none"
        THEN [ret |-> NoMsg, last_profit |-> Put(lp, ProfitKey(rec), "none"),
              last_triggered |-> lt]
        ELSE ProfitEscalation(rec, ProfitVal(rec).v, current_level, cd, lp, lt, t)

check_profit(rec, cfg, cd, lp, lt, t) ==
    LET current_level == ProfitLevel(rec, cfg)
    IN  IF current_level \in {"skip", "none"}
        THEN [ret |-> NoMsg, last_profit |-> lp, last_triggered |-> lt]
        ELSE ProfitEscalation(rec, ProfitVal(rec).v, current_level, cd, lp, lt, t)

(***************************************************************************)
(* check_travel_percent_liquid                                             *)
(***************************************************************************)
\* the if-chain on the bands, the shallowest band tested first
TravelLevel_shallow(current_val, low, medium, high) ==
    IF current_val <= low THEN "LOW"
    ELSE IF current_val <= medium THEN "MEDIUM"
    ELSE IF current_val <= high THEN "HIGH"
    ELSE ""

\* the if-chain on the bands; "" stands for its return ""
TravelLevel(current_val, low, medium, high) ==
    IF current_val <= high THEN "HIGH"
    ELSE IF current_val <= medium THEN "MEDIUM"
    ELSE IF current_val <= low THEN "LOW"
    ELSE ""

TravelMsg(rec, current_val, alert_level) ==
    [kind |-> "Travel Percent Liquid ALERT", asset |-> AssetFull(rec, "???"),
     ptype |-> Capitalize(rec.position_type), wallet |-> rec.wallet_name,
     value |-> current_val, level |-> alert_level]

\* TravelBand letting a travel percent of 0 through
TravelBand_gt(rec, cfg) ==
    LET current_val == Float(GetField(rec.current_travel_percent, 0))
        tpli_config == cfg.alert_ranges.travel_percent_liquid_ranges
        low == Float(GetField(tpli_config.low, -25))
        medium == Float(GetField(tpli_config.medium, -50))
        high == Float(GetField(tpli_config.high, -75))
    IN  IF ~current_val.ok THEN ""
        ELSE IF current_val.v > 0 THEN ""
        ELSE IF ~tpli_config.enabled THEN ""
        ELSE IF ~(low.ok /\ medium.ok /\ high.ok) THEN ""
        ELSE TravelLevel(current_val.v, low.v, medium.v, high.v)

\* the band check_travel_percent_liquid reaches for a record; "" stands for
\* every return "" before the key is built
TravelBand(rec, cfg) ==
    LET current_val == Float(GetField(rec.current_travel_percent, 0))
        tpli_config == cfg.alert_ranges.travel_percent_liquid_ranges
        low == Float(GetField(tpli_config.low, -25))
        medium == Float(GetField(tpli_config.medium, -50))
        high == Float(GetField(tpli_config.high, -75))
    IN  IF ~current_val.ok THEN ""
        ELSE IF current_val.v >= 0 THEN ""
        ELSE IF ~tpli_config.enabled THEN ""
        ELSE IF ~(low.ok /\ medium.ok /\ high.ok) THEN ""
        ELSE TravelLevel(current_val.v, low.v, medium.v, high.v)

\* check_travel_percent_liquid refreshing the timestamp of a suppressed alert
check_travel_percent_liquid_refresh(rec, cfg, cd, lt, t) ==
    LET alert_level == TravelBand(rec, cfg)
        key == TravelKey(rec, alert_level)
        last_time == Get(lt, key, 0)
    IN  IF alert_level = "" THEN [ret |-> NoMsg, last_triggered |-> lt]
        ELSE IF t - last_time < cd
        THEN [ret |-> NoMsg, last_triggered |-> Put(lt, key, t)]
        ELSE [ret |-> TravelMsg(rec, Float(rec.current_travel_percent).v, alert_level),
              last_triggered |-> Put(lt, key, t)]

\* check_travel_percent_liquid without the test of the cooldown
check_travel_percent_liquid_nocooldown(rec, cfg, cd, lt, t) ==
    LET alert_level == TravelBand(rec, cfg)
        key == TravelKey(rec, alert_level)
    IN  IF alert_level = "" THEN [ret |-> NoMsg, last_triggered |-> lt]
        ELSE [ret |-> TravelMsg(rec, Float(rec.current_travel_percent).v, alert_level),
              last_triggered |-> Put(lt, key, t)]

check_travel_percent_liquid(rec, cfg, cd, lt, t) ==
    LET alert_level == TravelBand(rec, cfg)
        key == TravelKey(rec, alert_level)
        last_time == Get(lt, key, 0)
    IN  IF alert_level = "" THEN [ret |-> NoMsg, last_triggered |-> lt]
        ELSE IF t - last_time < cd THEN [ret |-> NoMsg, last_triggered |-> lt]
        ELSE [ret |-> TravelMsg(rec, Float(rec.current_travel_percent).v, alert_level),
              last_triggered |-> Put(lt, key, t)]

(***************************************************************************)
(* check_swing_alert, check_blast_alert                                    *)
(***************************************************************************)
\* self.config["alert_ranges"][section].get(asset, 0), asset the upper-cased code
AssetThreshold(section, asset) ==
    IF asset \in DOMAIN section THEN section[asset] ELSE Num(0)

\* check_swing_alert with a boundary that is not inclusive
check_swing_alert_gt(rec, cfg, cd, lt, t) ==
    LET same == [ret |-> NoMsg, last_triggered |-> lt]
        asset == AssetCode(rec, "???")
        current_value == Float(GetField(rec.liquidation_distance, 0))
        swing_threshold ==
            Float(AssetThreshold(cfg.alert_ranges.average_daily_swing, asset))
        key == SwingKey(rec)
        last_time == Get(lt, key, 0)
    IN  IF ~current_value.ok THEN same
        ELSE IF ~swing_threshold.ok THEN same
        ELSE IF current_value.v > swing_threshold.v /\ t - last_time >= cd
        THEN [ret |-> [kind |-> "Average Daily Swing ALERT",
                       asset |-> AssetFull(rec, "???"),
                       ptype |-> Capitalize(rec.position_type),
                       id |-> PositionId(rec), value |-> current_value.v,
                       threshold |-> swing_threshold.v],
              last_triggered |-> Put(lt, key, t)]
        ELSE same

\* check_swing_alert refreshing the timestamp of its key when the cooldown
\* suppresses the message
check_swing_alert_refresh(rec, cfg, cd, lt, t) ==
    LET same == [ret |-> NoMsg, last_triggered |-> lt]
        asset == AssetCode(rec, "???")
        current_value == Float(GetField(rec.liquidation_distance, 0))
        swing_threshold ==
            Float(AssetThreshold(cfg.alert_ranges.average_daily_swing, asset))
        key == SwingKey(rec)
        last_time == Get(lt, key, 0)
    IN  IF ~current_value.ok THEN same
        ELSE IF ~swing_threshold.ok THEN same
        ELSE IF current_value.v >= swing_threshold.v /\ t - last_time >= cd
        THEN [ret |-> [kind |-> "Average Daily Swing ALERT",
                       asset |-> AssetFull(rec, "???"),
                       ptype |-> Capitalize(rec.position_type),
                       id |-> PositionId(rec), value |-> current_value.v,
                       threshold |-> swing_threshold.v],
              last_triggered |-> Put(lt, key, t)]
        ELSE IF current_value.v >= swing_threshold.v
        THEN [ret |-> NoMsg, last_triggered |-> Put(lt, key, t)]
        ELSE same

check_swing_alert(rec, cfg, cd, lt, t) ==
    LET same == [ret |-> NoMsg, last_triggered |-> lt]
        asset == AssetCode(rec, "???")
        current_value == Float(GetField(rec.liquidation_distance, 0))
        swing_threshold ==
            Float(AssetThreshold(cfg.alert_ranges.average_daily_swing, asset))
        key == SwingKey(rec)
        last_time == Get(lt, key, 0)
    IN  IF ~current_value.ok THEN same
        ELSE IF ~swing_threshold.ok THEN same
        ELSE IF current_value.v >= swing_threshold.v /\ t - last_time >= cd
        THEN [ret |-> [kind |-> "Average Daily Swing ALERT",
                       asset |-> AssetFull(rec, "???"),
                       ptype |-> Capitalize(rec.position_type),
                       id |-> PositionId(rec), value |-> current_value.v,
                       threshold |-> swing_threshold.v],
              last_triggered |-> Put(lt, key, t)]
        ELSE same

\* check_blast_alert with a boundary that is not inclusive
check_blast_alert_gt(rec, cfg, cd, lt, t) ==
    LET same == [ret |-> NoMsg, last_triggered |-> lt]
        asset == AssetCode(rec, "???")
        current_value == Float(GetField(rec.liquidation_distance, 0))
        blast_threshold ==
            Float(AssetThreshold(cfg.alert_ranges.one_day_blast_radius, asset))
        key == BlastKey(rec)
        last_time == Get(lt, key, 0)
    IN  IF ~current_value.ok THEN same
        ELSE IF ~blast_threshold.ok THEN same
        ELSE IF current_value.v > blast_threshold.v /\ t - last_time >= cd
        THEN [ret |-> [kind |-> "One Day Blast Radius ALERT",
                       asset |-> AssetFull(rec, "???"),
                       ptype |-> Capitalize(rec.position_type),
                       id |-> PositionId(rec), value |-> current_value.v,
                       threshold |-> blast_threshold.v],
              last_triggered |-> Put(lt, key, t)]
        ELSE same

check_blast_alert(rec, cfg, cd, lt, t) ==
    LET same == [ret |-> NoMsg, last_triggered |-> lt]
        asset == AssetCode(rec, "???")
        current_value == Float(GetField(rec.liquidation_distance, 0))
        blast_threshold ==
            Float(AssetThreshold(cfg.alert_ranges.one_day_blast_radius, asset))
        key == BlastKey(rec)
        last_time == Get(lt, key, 0)
    IN  IF ~current_value.ok THEN same
        ELSE IF ~blast_threshold.ok THEN same
        ELSE IF current_value.v >= blast_threshold.v /\ t - last_time >= cd
        THEN [ret |-> [kind |-> "One Day Blast Radius ALERT",
                       asset |-> AssetFull(rec, "???"),
                       ptype |-> Capitalize(rec.position_type),
                       id |-> PositionId(rec), value |-> current_value.v,
                       threshold |-> blast_threshold.v],
              last_triggered |-> Put(lt, key, t)]
        ELSE same

(***************************************************************************)
(* check_price_alerts, handle_price_alert_trigger                          *)
(***************************************************************************)
\* str.lower() on the status values the model uses
Lower(s) ==
    CASE s = "ACTIVE" -> "active"
      [] s = "Active" -> "active"
      [] s = "INACTIVE" -> "inactive"
      [] OTHER -> s

\* a filter on the status alone
IsActivePriceAlert_anykind(a) == Lower(a.status) = "active"

\* a filter on the kind alone
IsActivePriceAlert_anystatus(a) == a.alert_type = "PRICE_THRESHOLD"

\* the filter of the list comprehension
IsActivePriceAlert(a) ==
    a.alert_type = "PRICE_THRESHOLD" /\ Lower(a.status) = "active"

\* try: float(alert.get("trigger_value", 0.0)) except: 0.0
TriggerVal(alert) ==
    LET f == Float(GetField(alert.trigger_value, 0))
    IN  IF f.ok THEN f.v ELSE 0

\* alert.get("condition", "ABOVE").upper()
Condition(alert) ==
    Upper(IF alert.condition = "<missing>" THEN "ABOVE" ELSE alert.condition)

handle_price_alert_trigger(alert, current_price, asset_full, cd, lt, t) ==
    LET key == "price-alert-" \o asset_full \o "-" \o PositionId(alert)
        last_time == Get(lt, key, 0)
    IN  IF t - last_time < cd THEN [ret |-> NoMsg, last_triggered |-> lt]
        ELSE [ret |-> [kind |-> "Price ALERT", asset |-> asset_full,
                       ptype |-> Capitalize(alert.position_type),
                       wallet |-> IF alert.wallet_name # "Unknown"
                                  THEN alert.wallet_name ELSE "",
                       cond |-> Condition(alert), trigger |-> TriggerVal(alert),
                       current |-> current_price],
              last_triggered |-> Put(lt, key, t)]

\* price_alert_body with a test for ABOVE that is not inclusive
price_alert_body_strict(alert, price_info, cd, lt, t) ==
    LET same == [ret |-> NoMsg, last_triggered |-> lt, raised |-> FALSE]
        asset_full == AssetFull(alert, "BTC")
        trigger_val == TriggerVal(alert)
        condition == Condition(alert)
        current_price == Float(GetField(price_info.current_price, 0))
    IN  IF ~price_info.present THEN same
        ELSE IF ~current_price.ok
        THEN [ret |-> NoMsg, last_triggered |-> lt, raised |-> TRUE]
        ELSE IF (condition = "ABOVE" /\ current_price.v > trigger_val)
                \/ (condition # "ABOVE" /\ current_price.v <= trigger_val)
        THEN LET r == handle_price_alert_trigger(alert, current_price.v, asset_full,
                                                 cd, lt, t)
             IN  [ret |-> r.ret, last_triggered |-> r.last_triggered, raised |-> FALSE]
        ELSE same

\* price_alert_body raising when there is no price for the asset
price_alert_body_noprice(alert, price_info, cd, lt, t) ==
    LET same == [ret |-> NoMsg, last_triggered |-> lt, raised |-> FALSE]
        asset_full == AssetFull(alert, "BTC")
        trigger_val == TriggerVal(alert)
        condition == Condition(alert)
        current_price == Float(GetField(price_info.current_price, 0))
    IN  IF ~price_info.present
        THEN [ret |-> NoMsg, last_triggered |-> lt, raised |-> TRUE]
        ELSE IF ~current_price.ok
        THEN [ret |-> NoMsg, last_triggered |-> lt, raised |-> TRUE]
        ELSE IF (condition = "ABOVE" /\ current_price.v >= trigger_val)
                \/ (condition # "ABOVE" /\ current_price.v <= trigger_val)
        THEN LET r == handle_price_alert_trigger(alert, current_price.v, asset_full,
                                                 cd, lt, t)
             IN  [ret |-> r.ret, last_triggered |-> r.last_triggered, raised |-> FALSE]
        ELSE same

\* one turn of "for alert in price_alerts"; raised: float(current_price) raised
price_alert_body(alert, price_info, cd, lt, t) ==
    LET same == [ret |-> NoMsg, last_triggered |-> lt, raised |-> FALSE]
        asset_full == AssetFull(alert, "BTC")
        trigger_val == TriggerVal(alert)
        condition == Condition(alert)
        current_price == Float(GetField(price_info.current_price, 0))
    IN  IF ~price_info.present THEN same
        ELSE IF ~current_price.ok
        THEN [ret |-> NoMsg, last_triggered |-> lt, raised |-> TRUE]
        ELSE IF (condition = "ABOVE" /\ current_price.v >= trigger_val)
                \/ (condition # "ABOVE" /\ current_price.v <= trigger_val)
        THEN LET r == handle_price_alert_trigger(alert, current_price.v, asset_full,
                                                 cd, lt, t)
             IN  [ret |-> r.ret, last_triggered |-> r.last_triggered, raised |-> FALSE]
        ELSE same

(***************************************************************************)
(* send_call, trigger_twilio_flow                                          *)
(***************************************************************************)
\* TRUE when trigger_twilio_flow returns, FALSE when it raises
trigger_twilio_flow(tw, transport_ok) == tw = "ok" /\ transport_ok

\* send_call without the test of the refractory period
send_call_norefractory(key, lct, crp, tw, t, transport_ok) ==
    IF trigger_twilio_flow(tw, transport_ok)
    THEN [last_call_triggered |-> Put(lct, key, t), attempted |-> TRUE, sent |-> TRUE,
          raised |-> FALSE]
    ELSE [last_call_triggered |-> lct, attempted |-> TRUE, sent |-> FALSE,
          raised |-> FALSE]

\* send_call without the except clause: the exception of the transport leaves it
send_call_propagate(key, lct, crp, tw, t, transport_ok) ==
    LET last_call_time == Get(lct, key, 0)
    IN  IF t - last_call_time < crp
        THEN [last_call_triggered |-> lct, attempted |-> FALSE, sent |-> FALSE,
              raised |-> FALSE]
        ELSE IF trigger_twilio_flow(tw, transport_ok)
        THEN [last_call_triggered |-> Put(lct, key, t), attempted |-> TRUE,
              sent |-> TRUE, raised |-> FALSE]
        ELSE [last_call_triggered |-> lct, attempted |-> TRUE, sent |-> FALSE,
              raised |-> TRUE]

\* send_call stamping the key before the transport is tried
send_call_advance_on_failure(key, lct, crp, tw, t, transport_ok) ==
    LET last_call_time == Get(lct, key, 0)
    IN  IF t - last_call_time < crp
        THEN [last_call_triggered |-> lct, attempted |-> FALSE, sent |-> FALSE,
              raised |-> FALSE]
        ELSE [last_call_triggered |-> Put(lct, key, t), attempted |-> TRUE,
              sent |-> trigger_twilio_flow(tw, transport_ok), raised |-> FALSE]

\* send_call restarting the refractory window at a suppressed attempt
send_call_extend(key, lct, crp, tw, t, transport_ok) ==
    LET last_call_time == Get(lct, key, 0)
    IN  IF t - last_call_time < crp
        THEN [last_call_triggered |-> Put(lct, key, t), attempted |-> FALSE,
              sent |-> FALSE, raised |-> FALSE]
        ELSE IF trigger_twilio_flow(tw, transport_ok)
        THEN [last_call_triggered |-> Put(lct, key, t), attempted |-> TRUE,
              sent |-> TRUE, raised |-> FALSE]
        ELSE [last_call_triggered |-> lct, attempted |-> TRUE, sent |-> FALSE,
              raised |-> FALSE]

\* raised: an exception left send_call (the except clause of line 403 catches all)
send_call(key, lct, crp, tw, t, transport_ok) ==
    LET last_call_time == Get(lct, key, 0)
    IN  IF t - last_call_time < crp
        THEN [last_call_triggered |-> lct, attempted |-> FALSE, sent |-> FALSE,
              raised |-> FALSE]
        ELSE IF trigger_twilio_flow(tw, transport_ok)
        THEN [last_call_triggered |-> Put(lct, key, t), attempted |-> TRUE,
              sent |-> TRUE, raised |-> FALSE]
        ELSE [last_call_triggered |-> lct, attempted |-> TRUE, sent |-> FALSE,
              raised |-> FALSE]

\* message = f"{len(aggregated_alerts)} alerts triggered{source_info}:\n" + "\n".join(...)
AggregateBody(alerts, source) ==
    [count |-> Len(alerts), text |-> " alerts triggered",
     source_info |-> IF source # "" THEN " (source: " \o source \o ")" ELSE "",
     lines |-> alerts]

(***************************************************************************)
(* The environment: what the configuration file, the positions table, the  *)
(* alerts table and the price feed may hold.  env names one of a few       *)
(* environments; it is chosen at construction and never changes.  In each  *)
(* one evaluator meets readings that make it fire, the others do not:      *)
(*   "profit": positions with profit readings, profit ranges enabled       *)
(*   "travel": positions with travel percent readings, travel ranges enabled *)
(*   "exceed": positions at and below the swing / blast boundary           *)
(*   "price":  price alerts with a price, the configuration file is edited *)
(*             while the engine runs                                       *)
(*   "linked": two price alerts on one asset, linked to the same position, *)
(*             with prices at, below and above their trigger value         *)
(*   "noid":   rows of the positions table without an identifier           *)
(*   "e2e":    one position in profit and one price alert above its        *)
(*             trigger, nothing else supplied                              *)
(*   "malformed": rows whose numeric fields are missing or not numbers     *)
(*   "badcfg": thresholds that are not numbers, or not there               *)
(*   "order":  snapshots of several positions on which every metric fires, *)
(*             with price alerts                                           *)
(*   "reload": the configuration file is edited while the engine runs:     *)
(*             thresholds, timers, the monitor switch and the transport    *)
(*   "race":   check_alerts is also called from a second thread            *)
(***************************************************************************)
Envs == {"profit", "travel", "exceed", "price", "linked", "noid", "e2e", "malformed",
         "badcfg", "order", "reload", "race"}

ProfitDefault == [enabled |-> TRUE, low |-> MissingV, medium |-> MissingV, high |-> MissingV]
ProfitAlt == [enabled |-> TRUE, low |-> Num(24), medium |-> Num(49), high |-> Num(74)]
ProfitOff == [enabled |-> FALSE, low |-> Num(25), medium |-> Num(50), high |-> Num(75)]
TravelDefault == [enabled |-> TRUE, low |-> MissingV, medium |-> MissingV, high |-> MissingV]
TravelOdd == [enabled |-> TRUE, low |-> Num(10), medium |-> Num(0), high |-> Num(-75)]
TravelOff == [enabled |-> FALSE, low |-> Num(-25), medium |-> Num(-50), high |-> Num(-75)]
ProfitE2E == [enabled |-> TRUE, low |-> Num(25), medium |-> Num(50), high |-> Num(75)]
ProfitBad == [enabled |-> TRUE, low |-> Num(25), medium |-> BadV, high |-> Num(75)]
TravelBad == [enabled |-> TRUE, low |-> BadV, medium |-> Num(-50), high |-> Num(-75)]
\* no travel_percent_liquid_ranges section: .get(..., {}) and the defaults of its reads
TravelAbsent == [enabled |-> FALSE, low |-> MissingV, medium |-> MissingV, high |-> MissingV]
PerAsset(f) == [a \in {"BTC", "ETH"} |-> f]
\* no average_daily_swing / one_day_blast_radius section: .get(..., {})
NoAssets == [a \in {} |-> Num(0)]
OnlyETH(f) == [a \in {"ETH"} |-> f]

Cfg(pr, tr, sw, bl, cd, crp) ==
    [alert_ranges |-> [profit_ranges |-> pr, travel_percent_liquid_ranges |-> tr,
                       average_daily_swing |-> sw, one_day_blast_radius |-> bl],
     alert_cooldown_seconds |-> cd, call_refractory_period |-> crp,
     alert_monitor_enabled |-> TRUE, twilio_config |-> "ok"]

\* a configuration that switches the monitor off and has no complete twilio_config
Unplugged(c) == [c EXCEPT !.alert_monitor_enabled = FALSE, !.twilio_config = "missing"]

\* what the configuration file may hold at construction
Configs(e) ==
    CASE e = "profit" ->
           { Cfg(ProfitDefault, TravelOff, PerAsset(Num(20)), PerAsset(Num(20)), 2, 2),
             Cfg(ProfitAlt, TravelOff, PerAsset(Num(20)), PerAsset(Num(20)), 0, 0),
             Cfg(ProfitOff, TravelOff, PerAsset(Num(20)), PerAsset(Num(20)), 2, 2) }
      [] e = "travel" ->
           { Cfg(ProfitOff, TravelDefault, PerAsset(Num(20)), PerAsset(Num(20)), 2, 2),
             Cfg(ProfitOff, TravelDefault, PerAsset(Num(20)), PerAsset(Num(20)), 0, 0),
             Cfg(ProfitOff, TravelOdd, PerAsset(Num(20)), PerAsset(Num(20)), 2, 2) }
      [] e = "exceed" ->
           { Cfg(ProfitOff, TravelOff, PerAsset(Num(10)), PerAsset(Num(10)), 2, 2),
             Cfg(ProfitOff, TravelOff, PerAsset(Num(10)), PerAsset(Num(10)), 0, 0),
             Cfg(ProfitOff, TravelOff, OnlyETH(Num(10)), OnlyETH(Num(10)), 2, 2) }
      [] e = "linked" ->
           { Cfg(ProfitOff, TravelOff, PerAsset(Num(20)), PerAsset(Num(20)), 2, 2),
             Cfg(ProfitOff, TravelOff, PerAsset(Num(20)), PerAsset(Num(20)), 0, 0) }
      [] e = "noid" ->
           { Cfg(ProfitOff, TravelOff, PerAsset(Num(9)), PerAsset(Num(20)), 2, 2) }
      [] e = "e2e" ->
           { Cfg(ProfitE2E, TravelAbsent, NoAssets, NoAssets, 0, 2) }
      [] e = "malformed" ->
           { Cfg(ProfitE2E, TravelDefault, OnlyETH(Num(10)), OnlyETH(Num(10)), 2, 2) }
      [] e = "order" ->
           { Cfg(ProfitE2E, TravelDefault, PerAsset(Num(10)), PerAsset(Num(10)), 2, 2) }
      [] e = "reload" ->
           { Cfg(ProfitE2E, TravelOff, PerAsset(Num(20)), PerAsset(Num(20)), 0, 0),
             Cfg(ProfitOff, TravelOff, PerAsset(Num(20)), PerAsset(Num(20)), 0, 2),
             Unplugged(Cfg(ProfitAlt, TravelOff, PerAsset(Num(20)), PerAsset(Num(20)),
                           2, 2)) }
      [] e = "race" ->
           { Cfg(ProfitOff, TravelOff, PerAsset(Num(10)), PerAsset(Num(20)), 2, 2) }
      [] e = "badcfg" ->
           { Cfg(ProfitBad, TravelBad, PerAsset(BadV), PerAsset(BadV), 2, 2),
             Cfg(ProfitDefault, TravelDefault, NoAssets, NoAssets, 2, 2) }
      [] OTHER ->
           { Cfg(ProfitOff, TravelOff, PerAsset(Num(20)), PerAsset(Num(20)), 2, 2),
             Cfg(ProfitOff, TravelOff, PerAsset(Num(20)), PerAsset(Num(20)), 0, 1) }

\* what the configuration file may hold at a reload, c being the one in use
Reloads(e, c) == IF e \in {"price", "reload"} THEN Configs(e) ELSE {c}

\* the identifying columns of a positions row and its liquidation distance
PosBTC ==
    [asset_type |-> "BTC", position_type |-> "LONG", position_id |-> "p1", id |-> "",
     wallet_name |-> "W1", liquidation_distance |-> Num(10)]
PosBtc ==
    [asset_type |-> "btc", position_type |-> "long", position_id |-> "", id |-> "p1",
     wallet_name |-> "W1", liquidation_distance |-> Num(9)]

\* two rows without position_id and id
PosNoIdA ==
    [asset_type |-> "ETH", position_type |-> "SHORT", position_id |-> "", id |-> "",
     wallet_name |-> "W1", liquidation_distance |-> Num(10)]
PosNoIdB ==
    [asset_type |-> "ETH", position_type |-> "SHORT", position_id |-> "", id |-> "",
     wallet_name |-> "W2", liquidation_distance |-> Num(9)]

\* a row with nothing but its asset and its side
PosE2E ==
    [asset_type |-> "BTC", position_type |-> "LONG", position_id |-> "", id |-> "",
     wallet_name |-> "Unknown", liquidation_distance |-> MissingV]

\* a row whose liquidation distance is not a number, or not there
PosBadDist ==
    [asset_type |-> "BTC", position_type |-> "LONG", position_id |-> "p1", id |-> "",
     wallet_name |-> "W1", liquidation_distance |-> BadV]
PosNoDist ==
    [asset_type |-> "BTC", position_type |-> "LONG", position_id |-> "p1", id |-> "",
     wallet_name |-> "W1", liquidation_distance |-> MissingV]

Positions(e) ==
    CASE e = "exceed" -> {PosBTC, PosBtc}
      [] e = "noid" -> {PosNoIdA, PosNoIdB}
      [] e = "e2e" -> {PosE2E}
      [] e = "order" -> {PosBTC, PosNoIdA}
      [] e = "malformed" -> {PosBadDist, PosNoDist}
      [] OTHER -> {PosBTC}

\* the rows that may come with k rows of the snapshot still to visit; in "order"
\* the snapshot is the same list in every cycle
Rows(e, k) ==
    IF e = "order" THEN (IF k = 2 THEN {PosBTC} ELSE {PosNoIdA}) ELSE Positions(e)

ProfitFields(e) ==
    CASE e = "profit" -> {NoneV, BadV, Num(0), Num(24), Num(25), Num(50), Num(75)}
      [] e = "e2e" -> {Num(80)}
      [] e = "malformed" -> {BadV}
      [] e = "badcfg" -> {Num(80)}
      [] e = "order" -> {Num(80)}
      [] e = "reload" -> {Num(24), Num(80)}
      [] OTHER -> {NoneV}

TravelFields(e) ==
    CASE e = "travel" -> {Num(5), Num(0), Num(-10), Num(-25), Num(-50), Num(-80)}
      [] e = "malformed" -> {BadV}
      [] e = "badcfg" -> {Num(-80)}
      [] e = "order" -> {Num(-80)}
      [] OTHER -> {MissingV}

AlertETH ==
    [alert_type |-> "PRICE_THRESHOLD", status |-> "Active", asset_type |-> "ETH",
     position_id |-> "", id |-> "a1", trigger_value |-> Num(3000),
     condition |-> "ABOVE", position_type |-> "", wallet_name |-> "Unknown"]
AlertOff ==
    [alert_type |-> "PRICE_THRESHOLD", status |-> "inactive", asset_type |-> "ETH",
     position_id |-> "", id |-> "a2", trigger_value |-> Num(3000),
     condition |-> "ABOVE", position_type |-> "", wallet_name |-> "Unknown"]

\* two alerts on one asset, linked to the same position
AlertP1Above ==
    [alert_type |-> "PRICE_THRESHOLD", status |-> "ACTIVE", asset_type |-> "eth",
     position_id |-> "p1", id |-> "a3", trigger_value |-> Num(3000),
     condition |-> "above", position_type |-> "long", wallet_name |-> "W1"]
AlertP1Below ==
    [alert_type |-> "PRICE_THRESHOLD", status |-> "Active", asset_type |-> "ETH",
     position_id |-> "p1", id |-> "a4", trigger_value |-> Num(3000),
     condition |-> "BELOW", position_type |-> "long", wallet_name |-> "W1"]

\* an active alert of another kind, on a price at its trigger value
AlertOtherKind ==
    [alert_type |-> "TRAVEL_PERCENT", status |-> "Active", asset_type |-> "ETH",
     position_id |-> "", id |-> "a6", trigger_value |-> Num(3000),
     condition |-> "ABOVE", position_type |-> "", wallet_name |-> "Unknown"]

\* an alert whose trigger value is not a number
AlertBadTrigger ==
    [alert_type |-> "PRICE_THRESHOLD", status |-> "Active", asset_type |-> "ETH",
     position_id |-> "", id |-> "a5", trigger_value |-> BadV,
     condition |-> "ABOVE", position_type |-> "", wallet_name |-> "Unknown"]

Alerts(e) ==
    CASE e = "price" -> {AlertETH, AlertOff}
      [] e = "linked" -> {AlertP1Above, AlertP1Below}
      [] e = "e2e" -> {AlertETH}
      [] e = "order" -> {AlertETH}
      [] e = "reload" -> {AlertOff, AlertOtherKind}
      [] e = "malformed" -> {AlertBadTrigger}
      [] OTHER -> {AlertOff}

PriceInfos(e) ==
    CASE e = "price" ->
           { [present |-> FALSE, current_price |-> MissingV],
             [present |-> TRUE, current_price |-> Num(3000)] }
      [] e = "linked" ->
           { [present |-> FALSE, current_price |-> MissingV],
             [present |-> TRUE, current_price |-> Num(2999)],
             [present |-> TRUE, current_price |-> Num(3000)],
             [present |-> TRUE, current_price |-> Num(3001)] }
      [] e = "e2e" -> { [present |-> TRUE, current_price |-> Num(3100)] }
      [] e \in {"malformed", "order"} ->
           { [present |-> TRUE, current_price |-> Num(3000)],
             [present |-> TRUE, current_price |-> BadV] }
      [] OTHER -> { [present |-> TRUE, current_price |-> Num(3000)] }

\* how many rows read_positions() and get_alerts() may return in one cycle
PositionCounts(e) ==
    CASE e = "e2e" -> {1}
      [] e = "order" -> {2}
      [] OTHER -> 0..MaxPositions
AlertCounts(e) ==
    CASE e = "e2e" -> {1}
      [] e = "order" -> {1}
      [] OTHER -> 0..MaxAlerts

Sources == {""}

\* no second invocation is running, and none has left a record
NoCall == [pc |-> "idle", t |-> 0, last_time |-> 0, ret |-> NoMsg, pe |-> -1,
           alerts |-> <<>>, last_call_time |-> 0, attempted |-> FALSE, sent |-> FALSE,
           ps |-> -1]

\* no cycle is running
NoCycle == [fresh |-> FALSE, log |-> <<>>]

NoPos == [asset_type |-> "", position_type |-> "", position_id |-> "", id |-> "",
          wallet_name |-> "", liquidation_distance |-> MissingV]

(***************************************************************************)
(* The state machine.  run() calls check_alerts in a loop; check_alerts is *)
(* followed call by call, since every evaluator reads the clock itself.    *)
(* The rows of a cycle are drawn when the loop reaches them: nothing reads *)
(* them earlier.                                                           *)
(***************************************************************************)
Init ==
    /\ env \in Envs
    /\ config \in Configs(env)
    /\ cooldown = config.alert_cooldown_seconds
    /\ call_refractory_period = config.call_refractory_period
    /\ monitor_enabled = config.alert_monitor_enabled
    /\ twilio_config = config.twilio_config
    /\ last_profit = EmptyDict
    /\ last_triggered = EmptyDict
    /\ last_call_triggered = EmptyDict
    /\ now = StartTime
    /\ pc = "idle"
    /\ todo = [positions |-> 0, alerts |-> 0]
    /\ pos = NoPos
    /\ aggregated_alerts = <<>>
    /\ ev = [op |-> "init"]
    /\ hist = EmptyDict
    /\ emitted = EmptyDict
    /\ calls = EmptyDict
    /\ cd0 = (config.alert_cooldown_seconds = 0)
    /\ owner = EmptyDict
    /\ sync = TRUE
    /\ cyc = NoCycle
    /\ od = NoCall

AfterPositions(td) == IF td.alerts > 0 THEN "price" ELSE "dispatch"

\* a list with the newest message first
AddAlert_front(alerts, m) == IF Truthy(m) THEN <<m>> \o alerts ELSE alerts

\* aggregated_alerts.append(...), aggregated_alerts.extend(price_alerts)
AddAlert(alerts, m) == IF Truthy(m) THEN Append(alerts, m) ELSE alerts

Emit(em, m, key, t) == IF Truthy(m) THEN Put(em, key, t) ELSE em

\* an alert condition: a metric kind (for travel, with its band) of one row of the
\* positions table or of the alerts table
Cond(kind, rec) ==
    <<kind, rec.asset_type, rec.position_type, rec.position_id, rec.id,
      rec.wallet_name>>

\* the conditions that wrote the entries of a key, c having written it now
Own(ow, key, c, wrote) ==
    IF wrote THEN Put(ow, key, Get(ow, key, {}) \cup {c}) ELSE ow

\* the history of a cycle with the message m of a call added: stage 1 is the loop
\* over the positions and stage 2 the price alerts, ord the place of the row in its
\* loop (minus the number of rows still to visit, the row included), rank the
\* place of the call in the body of the loop
Log(c, stage, ord, rank, m) ==
    IF Truthy(m)
    THEN [c EXCEPT !.log = Append(@, [stage |-> stage, ord |-> ord, rank |-> rank,
                                      msg |-> m])]
    ELSE c

\* the smaller of two levels
MinLevel(a, b) == IF level_order[a] <= level_order[b] THEN a ELSE b

\* history of the profit messages of a key: the level and the reading of the last
\* one, the levels of all of them, and the lowest level computed for the key since
\* the last one (its own level included)
NoHist == [last |-> "none", min |-> "none", value |-> 0, levels |-> {}]

Record(h, key, m, level, value) ==
    IF Truthy(m)
    THEN Put(h, key, [last |-> level, min |-> level, value |-> value,
                      levels |-> Get(h, key, NoHist).levels \cup {level}])
    ELSE IF key \in DOMAIN h /\ level \in {"low", "medium", "high"}
    THEN [h EXCEPT ![key].min = MinLevel(@, level)]
    ELSE h

\* a reload that also starts the three dictionaries afresh, as __init__ does
ReloadConfig_clear ==
    /\ pc = "idle"
    /\ \E c \in Reloads(env, config) :
        /\ config' = c
        /\ cooldown' = c.alert_cooldown_seconds
        /\ call_refractory_period' = c.call_refractory_period
        /\ cd0' = (cd0 /\ c.alert_cooldown_seconds = 0)
        /\ ev' = [op |-> "reload_config", loaded |-> c]
    /\ last_profit' = EmptyDict
    /\ last_triggered' = EmptyDict
    /\ last_call_triggered' = EmptyDict
    /\ UNCHANGED <<monitor_enabled, twilio_config, now, pc, todo, pos,
                   aggregated_alerts, hist, emitted, calls, env, od, owner, sync, cyc>>

\* a reload that replaces self.config and keeps the cooldown and the refractory
\* period read at construction
ReloadConfig_stale ==
    /\ pc = "idle"
    /\ \E c \in Reloads(env, config) :
        /\ config' = c
        /\ cd0' = (cd0 /\ cooldown = 0)
        /\ ev' = [op |-> "reload_config", loaded |-> c]
    /\ UNCHANGED <<cooldown, call_refractory_period, monitor_enabled, twilio_config,
                   last_profit, last_triggered, last_call_triggered, now, pc, todo, pos,
                   aggregated_alerts, hist, emitted, calls, env, od, owner, sync, cyc>>

\* a reload that also reads the monitor switch and the twilio_config again
ReloadConfig_refresh ==
    /\ pc = "idle"
    /\ \E c \in Reloads(env, config) :
        /\ config' = c
        /\ cooldown' = c.alert_cooldown_seconds
        /\ call_refractory_period' = c.call_refractory_period
        /\ monitor_enabled' = c.alert_monitor_enabled
        /\ twilio_config' = c.twilio_config
        /\ cd0' = (cd0 /\ c.alert_cooldown_seconds = 0)
        /\ ev' = [op |-> "reload_config", loaded |-> c]
    /\ UNCHANGED <<last_profit, last_triggered, last_call_triggered, now, pc, todo, pos,
                   aggregated_alerts, hist, emitted, calls, env, od, owner, sync, cyc>>

\* def reload_config
ReloadConfig ==
    /\ pc = "idle"
    /\ \E c \in Reloads(env, config) :
        /\ config' = c
        /\ cooldown' = c.alert_cooldown_seconds
        /\ call_refractory_period' = c.call_refractory_period
        /\ cd0' = (cd0 /\ c.alert_cooldown_seconds = 0)
        /\ ev' = [op |-> "reload_config", loaded |-> c]
    /\ UNCHANGED <<monitor_enabled, twilio_config, last_profit, last_triggered,
                   last_call_triggered, now, pc, todo, pos, aggregated_alerts,
                   hist, emitted, calls, env, od, owner, sync, cyc>>

\* check_alerts without the test of monitor_enabled
CheckAlertsStart_ignore_monitor ==
    /\ pc = "idle"
    /\ IF FALSE
       THEN /\ ev' = [op |-> "check_alerts", enabled |-> FALSE]
            /\ UNCHANGED <<pc, todo, aggregated_alerts, cyc>>
       ELSE \E n \in PositionCounts(env), m \in AlertCounts(env) :
            /\ todo' = [positions |-> n, alerts |-> m]
            /\ cyc' = [fresh |-> /\ last_profit = EmptyDict
                                 /\ last_triggered = EmptyDict
                                 /\ last_call_triggered = EmptyDict,
                       log |-> <<>>]
            /\ aggregated_alerts' = <<>>
            /\ pc' = IF n > 0 THEN "profit" ELSE AfterPositions(todo')
            /\ ev' = [op |-> "check_alerts", enabled |-> TRUE]
    /\ UNCHANGED <<config, cooldown, call_refractory_period, monitor_enabled,
                   twilio_config, last_profit, last_triggered, last_call_triggered,
                   now, pos, hist, emitted, calls, env, od, cd0, owner, sync>>

\* check_alerts up to the first turn of the loop over the positions
CheckAlertsStart ==
    /\ pc = "idle"
    /\ IF ~monitor_enabled
       THEN /\ ev' = [op |-> "check_alerts", enabled |-> FALSE]
            /\ UNCHANGED <<pc, todo, aggregated_alerts, cyc>>
       ELSE \E n \in PositionCounts(env), m \in AlertCounts(env) :
            /\ todo' = [positions |-> n, alerts |-> m]
            /\ cyc' = [fresh |-> /\ last_profit = EmptyDict
                                 /\ last_triggered = EmptyDict
                                 /\ last_call_triggered = EmptyDict,
                       log |-> <<>>]
            /\ aggregated_alerts' = <<>>
            /\ pc' = IF n > 0 THEN "profit" ELSE AfterPositions(todo')
            /\ ev' = [op |-> "check_alerts", enabled |-> TRUE]
    /\ UNCHANGED <<config, cooldown, call_refractory_period, monitor_enabled,
                   twilio_config, last_profit, last_triggered, last_call_triggered,
                   now, pos, hist, emitted, calls, env, od, cd0, owner, sync>>

\* profit_alert = self.check_profit(pos)
CheckProfit ==
    /\ pc = "profit"
    /\ \E p \in Rows(env, todo.positions), f \in ProfitFields(env) :
        LET rec == p @@ [profit |-> f]
            key == ProfitKey(rec)
            r == check_profit(rec, config, cooldown, last_profit, last_triggered, now)
        IN  /\ pos' = p
            /\ last_profit' = r.last_profit
            /\ last_triggered' = r.last_triggered
            /\ aggregated_alerts' = AddAlert(aggregated_alerts, r.ret)
            /\ emitted' = Emit(emitted, r.ret, key, now)
            /\ hist' = Record(hist, key, r.ret, ProfitLevel(rec, config), f.v)
            /\ ev' = [op |-> "check_profit", key |-> key, arg |-> f, ret |-> r.ret,
                      level |-> ProfitLevel(rec, config),
                      pl |-> Get(last_profit, key, "none"),
                      pt |-> Get(last_triggered, key, 0),
                      pe |-> Get(emitted, key, -1),
                      ph |-> Get(hist, key, NoHist), t |-> now,
                      cond |-> Cond("profit", p), po |-> Get(owner, key, {})]
            /\ owner' = Own(owner, key, Cond("profit", p),
                            r.last_profit # last_profit \/ Truthy(r.ret))
            /\ cyc' = Log(cyc, 1, -todo.positions, 1, r.ret)
    /\ pc' = "travel"
    /\ UNCHANGED <<config, cooldown, call_refractory_period, monitor_enabled,
                   twilio_config, last_call_triggered, now, todo, calls, env, od, cd0,
                   sync>>

\* travel_alert = self.check_travel_percent_liquid(pos)
CheckTravel ==
    /\ pc = "travel"
    /\ \E f \in TravelFields(env) :
        LET rec == pos @@ [current_travel_percent |-> f]
            band == TravelBand(rec, config)
            key == TravelKey(rec, band)
            r == check_travel_percent_liquid(rec, config, cooldown, last_triggered, now)
        IN  /\ last_triggered' = r.last_triggered
            /\ aggregated_alerts' = AddAlert(aggregated_alerts, r.ret)
            /\ emitted' = Emit(emitted, r.ret, key, now)
            /\ ev' = [op |-> "check_travel_percent_liquid", key |-> key, arg |-> f,
                      ret |-> r.ret, level |-> band,
                      pt |-> Get(last_triggered, key, 0),
                      pe |-> Get(emitted, key, -1), t |-> now,
                      cond |-> Cond("travel-" \o band, pos),
                      po |-> Get(owner, key, {})]
            /\ owner' = Own(owner, key, Cond("travel-" \o band, pos), Truthy(r.ret))
            /\ cyc' = Log(cyc, 1, -todo.positions, 2, r.ret)
    /\ pc' = "swing"
    /\ UNCHANGED <<config, cooldown, call_refractory_period, monitor_enabled,
                   twilio_config, last_profit, last_call_triggered, now, todo, pos,
                   hist, calls, env, od, cd0, sync>>

\* swing_alert = self.check_swing_alert(pos)
CheckSwing ==
    /\ pc = "swing"
    /\ LET key == SwingKey(pos)
           r == check_swing_alert(pos, config, cooldown, last_triggered, now)
       IN  /\ last_triggered' = r.last_triggered
           /\ aggregated_alerts' = AddAlert(aggregated_alerts, r.ret)
           /\ emitted' = Emit(emitted, r.ret, key, now)
           /\ ev' = [op |-> "check_swing_alert", key |-> key,
                     arg |-> pos.liquidation_distance, ret |-> r.ret,
                     pt |-> Get(last_triggered, key, 0),
                     pe |-> Get(emitted, key, -1), t |-> now,
                     cond |-> Cond("swing", pos), po |-> Get(owner, key, {})]
           /\ owner' = Own(owner, key, Cond("swing", pos), Truthy(r.ret))
           /\ cyc' = Log(cyc, 1, -todo.positions, 3, r.ret)
    /\ pc' = "blast"
    /\ UNCHANGED <<config, cooldown, call_refractory_period, monitor_enabled,
                   twilio_config, last_profit, last_call_triggered, now, todo, pos,
                   hist, calls, env, od, cd0, sync>>

\* blast_alert = self.check_blast_alert(pos), and the next turn of the loop
CheckBlast ==
    /\ pc = "blast"
    /\ LET key == BlastKey(pos)
           r == check_blast_alert(pos, config, cooldown, last_triggered, now)
       IN  /\ last_triggered' = r.last_triggered
           /\ aggregated_alerts' = AddAlert(aggregated_alerts, r.ret)
           /\ emitted' = Emit(emitted, r.ret, key, now)
           /\ ev' = [op |-> "check_blast_alert", key |-> key,
                     arg |-> pos.liquidation_distance, ret |-> r.ret,
                     pt |-> Get(last_triggered, key, 0),
                     pe |-> Get(emitted, key, -1), t |-> now,
                     cond |-> Cond("blast", pos), po |-> Get(owner, key, {}),
                     swing |-> ev.ret]
           /\ owner' = Own(owner, key, Cond("blast", pos), Truthy(r.ret))
           /\ cyc' = Log(cyc, 1, -todo.positions, 4, r.ret)
    /\ sync' = (sync /\ ev.t = now)
    /\ todo' = [todo EXCEPT !.positions = @ - 1]
    /\ pc' = IF todo.positions > 1 THEN "profit" ELSE AfterPositions(todo)
    /\ pos' = NoPos
    /\ UNCHANGED <<config, cooldown, call_refractory_period, monitor_enabled,
                   twilio_config, last_profit, last_call_triggered, now, hist,
                   calls, env, od, cd0>>

\* one row of get_alerts() in check_price_alerts: filtered out, or one turn of
\* "for alert in price_alerts"
CheckPriceAlert ==
    /\ pc = "price"
    /\ \E a \in Alerts(env), price_info \in PriceInfos(env) :
        LET key == PriceKey(a)
            r == IF IsActivePriceAlert(a)
                 THEN price_alert_body(a, price_info, cooldown, last_triggered, now)
                 ELSE [ret |-> NoMsg, last_triggered |-> last_triggered,
                       raised |-> FALSE]
        IN  /\ last_triggered' = r.last_triggered
            /\ aggregated_alerts' = AddAlert(aggregated_alerts, r.ret)
            /\ emitted' = Emit(emitted, r.ret, key, now)
            /\ ev' = [op |-> "check_price_alerts", key |-> key, alert |-> a,
                      price_info |-> price_info, ret |-> r.ret, raised |-> r.raised,
                      pt |-> Get(last_triggered, key, 0),
                      pe |-> Get(emitted, key, -1), t |-> now,
                      cond |-> Cond("price", a), po |-> Get(owner, key, {})]
            /\ owner' = Own(owner, key, Cond("price", a), Truthy(r.ret))
            /\ cyc' = Log(cyc, 2, -todo.alerts, 1, r.ret)
            /\ pc' = IF r.raised THEN "raised"
                     ELSE IF todo.alerts > 1 THEN "price" ELSE "dispatch"
    /\ todo' = [todo EXCEPT !.alerts = @ - 1]
    /\ UNCHANGED <<config, cooldown, call_refractory_period, monitor_enabled,
                   twilio_config, last_profit, last_call_triggered, now, pos, hist,
                   calls, env, od, cd0, sync>>

\* a dispatch that keeps its timestamp in last_triggered too, one dictionary for
\* both timers
Dispatch_shared ==
    /\ pc = "dispatch"
    /\ IF aggregated_alerts # <<>>
       THEN \E source \in Sources, transport_ok \in BOOLEAN :
            LET key == "aggregated-alert"
                r == send_call(key, last_call_triggered, call_refractory_period,
                               twilio_config, now, transport_ok)
            IN  /\ last_call_triggered' = r.last_call_triggered
                /\ calls' = IF r.sent THEN Put(calls, key, now) ELSE calls
                /\ ev' = [op |-> "send_call", key |-> key,
                          body |-> AggregateBody(aggregated_alerts, source),
                          attempted |-> r.attempted, sent |-> r.sent,
                          raised |-> r.raised,
                          ps |-> Get(calls, key, -1),
                          pt |-> Get(last_call_triggered, key, 0), t |-> now]
                /\ pc' = IF r.raised THEN "raised" ELSE "idle"
                /\ last_triggered' = IF r.sent THEN Put(last_triggered, key, now)
                                     ELSE last_triggered
       ELSE /\ ev' = [op |-> "no_alerts"]
            /\ pc' = "idle"
            /\ UNCHANGED <<last_call_triggered, calls, last_triggered>>
    /\ aggregated_alerts' = <<>>
    /\ cyc' = NoCycle
    /\ UNCHANGED <<config, cooldown, call_refractory_period, monitor_enabled,
                   twilio_config, last_profit, now, todo, pos, hist,
                   emitted, env, od, cd0, owner, sync>>

\* a dispatch that takes back the timestamps of its cycle when nothing was sent
Dispatch_rollback ==
    /\ pc = "dispatch"
    /\ IF aggregated_alerts # <<>>
       THEN \E source \in Sources, transport_ok \in BOOLEAN :
            LET key == "aggregated-alert"
                r == send_call(key, last_call_triggered, call_refractory_period,
                               twilio_config, now, transport_ok)
            IN  /\ last_call_triggered' = r.last_call_triggered
                /\ calls' = IF r.sent THEN Put(calls, key, now) ELSE calls
                /\ ev' = [op |-> "send_call", key |-> key,
                          body |-> AggregateBody(aggregated_alerts, source),
                          attempted |-> r.attempted, sent |-> r.sent,
                          raised |-> r.raised,
                          ps |-> Get(calls, key, -1),
                          pt |-> Get(last_call_triggered, key, 0), t |-> now]
                /\ pc' = IF r.raised THEN "raised" ELSE "idle"
                /\ last_triggered' =
                     IF r.sent THEN last_triggered
                     ELSE [k \in {x \in DOMAIN last_triggered :
                                      last_triggered[x] # now} |-> last_triggered[k]]
       ELSE /\ ev' = [op |-> "no_alerts"]
            /\ pc' = "idle"
            /\ UNCHANGED <<last_call_triggered, calls, last_triggered>>
    /\ aggregated_alerts' = <<>>
    /\ cyc' = NoCycle
    /\ UNCHANGED <<config, cooldown, call_refractory_period, monitor_enabled,
                   twilio_config, last_profit, now, todo, pos, hist,
                   emitted, env, od, cd0, owner, sync>>

\* the end of check_alerts: "if aggregated_alerts: ... self.send_call(...)"
Dispatch ==
    /\ pc = "dispatch"
    /\ IF aggregated_alerts # <<>>
       THEN \E source \in Sources, transport_ok \in BOOLEAN :
            LET key == "aggregated-alert"
                r == send_call(key, last_call_triggered, call_refractory_period,
                               twilio_config, now, transport_ok)
            IN  /\ last_call_triggered' = r.last_call_triggered
                /\ calls' = IF r.sent THEN Put(calls, key, now) ELSE calls
                /\ ev' = [op |-> "send_call", key |-> key,
                          body |-> AggregateBody(aggregated_alerts, source),
                          attempted |-> r.attempted, sent |-> r.sent,
                          raised |-> r.raised,
                          ps |-> Get(calls, key, -1),
                          pt |-> Get(last_call_triggered, key, 0), t |-> now]
                /\ pc' = IF r.raised THEN "raised" ELSE "idle"
       ELSE /\ ev' = [op |-> "no_alerts"]
            /\ pc' = "idle"
            /\ UNCHANGED <<last_call_triggered, calls>>
    /\ aggregated_alerts' = <<>>
    /\ cyc' = NoCycle
    /\ UNCHANGED <<config, cooldown, call_refractory_period, monitor_enabled,
                   twilio_config, last_profit, last_triggered, now, todo, pos, hist,
                   emitted, env, od, cd0, owner, sync>>

\* time passes
Tick ==
    /\ now < StartTime + Horizon
    /\ now' = now + 1
    /\ UNCHANGED <<config, cooldown, call_refractory_period, monitor_enabled,
                   twilio_config, last_profit, last_triggered, last_call_triggered,
                   pc, todo, pos, aggregated_alerts, ev, hist, emitted, calls, env, od, cd0,
                   owner, sync, cyc>>

Next ==
    \/ ReloadConfig
    \/ CheckAlertsStart
    \/ CheckProfit
    \/ CheckTravel
    \/ CheckSwing
    \/ CheckBlast
    \/ CheckPriceAlert
    \/ Dispatch
    \/ Tick

Spec == Init /\ [][Next]_vars

InitProfit == Init /\ env = "profit"
SpecProfit == InitProfit /\ [][Next]_vars

InitTravel == Init /\ env = "travel"
SpecTravel == InitTravel /\ [][Next]_vars

InitExceed == Init /\ env = "exceed"
SpecExceed == InitExceed /\ [][Next]_vars

InitLinked == Init /\ env = "linked"
SpecLinked == InitLinked /\ [][Next]_vars

InitNoId == Init /\ env = "noid"
SpecNoId == InitNoId /\ [][Next]_vars

InitE2E == Init /\ env = "e2e"
SpecE2E == InitE2E /\ [][Next]_vars

InitMalformed == Init /\ env = "malformed"
SpecMalformed == InitMalformed /\ [][Next]_vars

InitBadCfg == Init /\ env = "badcfg"
SpecBadCfg == InitBadCfg /\ [][Next]_vars

InitOrder == Init /\ env = "order"
SpecOrder == InitOrder /\ [][Next]_vars

InitReload == Init /\ env = "reload"
SpecReload == InitReload /\ [][Next]_vars

(***************************************************************************)
(* A second invocation of check_alerts on the same AlertManager, from      *)
(* another thread, while run() goes on.  The object has no lock, so the    *)
(* steps of the two invocations interleave at every access to a shared     *)
(* dictionary; the second invocation is followed access by access.  In     *)
(* "race" its snapshot is the one row PosBTC, for which check_profit (not  *)
(* enabled), check_travel_percent_liquid (no reading) and                  *)
(* check_blast_alert (below the boundary) return before they reach a       *)
(* dictionary, and get_alerts() has no active alert: its accesses are      *)
(* those of check_swing_alert and of send_call.                            *)
(***************************************************************************)
OnDemandRow == PosBTC

\* check_alerts is entered: "if not self.monitor_enabled: return"
OnDemandStart ==
    /\ od.pc = "idle"
    /\ monitor_enabled
    /\ od' = [NoCall EXCEPT !.pc = "swing_read"]
    /\ UNCHANGED <<config, cooldown, call_refractory_period, monitor_enabled,
                   twilio_config, last_profit, last_triggered, last_call_triggered,
                   now, pc, todo, pos, aggregated_alerts, ev, hist, emitted, calls,
                   env, cd0, owner, sync, cyc>>

\* check_swing_alert: now = time.time(); last_time = self.last_triggered.get(key, 0)
OnDemandSwingRead ==
    /\ od.pc = "swing_read"
    /\ od' = [od EXCEPT !.pc = "swing_write", !.t = now,
                        !.last_time = Get(last_triggered, SwingKey(OnDemandRow), 0)]
    /\ UNCHANGED <<config, cooldown, call_refractory_period, monitor_enabled,
                   twilio_config, last_profit, last_triggered, last_call_triggered,
                   now, pc, todo, pos, aggregated_alerts, ev, hist, emitted, calls,
                   env, cd0, owner, sync, cyc>>

\* check_swing_alert: the test of the cooldown on the value read, the write of
\* last_triggered and the return; then the end of the loops of check_alerts
OnDemandSwingWrite ==
    /\ od.pc = "swing_write"
    /\ LET key == SwingKey(OnDemandRow)
           r == check_swing_alert(OnDemandRow, config, cooldown,
                                  Put(last_triggered, key, od.last_time), od.t)
           fired == Truthy(r.ret)
       IN  /\ last_triggered' = IF fired THEN Put(last_triggered, key, od.t)
                                ELSE last_triggered
           /\ emitted' = Emit(emitted, r.ret, key, od.t)
           /\ owner' = Own(owner, key, Cond("swing", OnDemandRow), fired)
           /\ od' = [od EXCEPT !.pc = IF fired THEN "call_read" ELSE "idle",
                               !.ret = r.ret, !.pe = Get(emitted, key, -1),
                               !.alerts = AddAlert(<<>>, r.ret)]
    /\ UNCHANGED <<config, cooldown, call_refractory_period, monitor_enabled,
                   twilio_config, last_profit, last_call_triggered, now, pc, todo, pos,
                   aggregated_alerts, ev, hist, calls, env, cd0, sync, cyc>>

\* send_call: now = time.time(); last_call_time = self.last_call_triggered.get(key, 0)
OnDemandCallRead ==
    /\ od.pc = "call_read"
    /\ od' = [od EXCEPT !.pc = "call_send", !.t = now,
                        !.last_call_time = Get(last_call_triggered, "aggregated-alert", 0)]
    /\ UNCHANGED <<config, cooldown, call_refractory_period, monitor_enabled,
                   twilio_config, last_profit, last_triggered, last_call_triggered,
                   now, pc, todo, pos, aggregated_alerts, ev, hist, emitted, calls,
                   env, cd0, owner, sync, cyc>>

\* send_call: the test of the refractory period on the value read, the send, the
\* write of last_call_triggered; check_alerts returns
OnDemandCallSend ==
    /\ od.pc = "call_send"
    /\ \E transport_ok \in BOOLEAN :
        LET key == "aggregated-alert"
            r == send_call(key, Put(last_call_triggered, key, od.last_call_time),
                           call_refractory_period, twilio_config, od.t, transport_ok)
        IN  /\ last_call_triggered' = IF r.sent THEN Put(last_call_triggered, key, od.t)
                                       ELSE last_call_triggered
            /\ calls' = IF r.sent THEN Put(calls, key, od.t) ELSE calls
            /\ od' = [od EXCEPT !.pc = "idle", !.attempted = r.attempted,
                                !.sent = r.sent, !.ps = Get(calls, key, -1)]
    /\ UNCHANGED <<config, cooldown, call_refractory_period, monitor_enabled,
                   twilio_config, last_profit, last_triggered, now, pc, todo, pos,
                   aggregated_alerts, ev, hist, emitted, env, cd0, owner, sync, cyc>>

NextRace ==
    \/ Next
    \/ OnDemandStart
    \/ OnDemandSwingRead
    \/ OnDemandSwingWrite
    \/ OnDemandCallRead
    \/ OnDemandCallSend

InitRace == Init /\ env = "race"
SpecRace == InitRace /\ [][NextRace]_vars

(***************************************************************************)
(* Properties.                                                             *)
(***************************************************************************)
EvaluatorOps ==
    {"check_profit", "check_travel_percent_liquid", "check_swing_alert",
     "check_blast_alert", "check_price_alerts"}

\* the last call was an evaluator that returned a message
Emitted == ev.op \in EvaluatorOps /\ Truthy(ev.ret)

\* the last call was check_profit; it returned a message
ProfitCall == ev.op = "check_profit"
ProfitFired == ProfitCall /\ Truthy(ev.ret)

\* C1: a message under a key is emitted at time t only if t - last_triggered[key]
\* (0 when the key is absent) is at least the cooldown, and any two messages
\* emitted under one key are at least the cooldown apart.
C1_PerKeyCooldown ==
    Emitted =>
        /\ ev.t - ev.pt >= cooldown
        /\ ev.pe # -1 => ev.t - ev.pe >= cooldown

\* a second message under a key while a cooldown is configured
C1_Witness == Emitted /\ ev.pe # -1 /\ cooldown > 0 /\ ev.op = "check_travel_percent_liquid"

\* C2: any two successful transport sends under "aggregated-alert" are at least
\* call_refractory_period apart.
C2_SendsRefractoryApart ==
    (ev.op = "send_call" /\ ev.key = "aggregated-alert" /\ ev.sent /\ ev.ps # -1)
        => ev.t - ev.ps >= call_refractory_period

\* a second successful send while a refractory period is configured
C2_Witness ==
    /\ ev.op = "send_call" /\ ev.key = "aggregated-alert"
    /\ ev.sent /\ ev.ps # -1 /\ call_refractory_period > 0

\* C3: check_profit emits a message only when the level computed is strictly more
\* severe than the level stored in last_profit for the key when it was called.
C3_StrictEscalation ==
    ProfitFired =>
        /\ ev.ret.level = Upper(ev.level)
        /\ level_order[ev.level] > LevelOrder(ev.pl)

\* a message for a key whose stored level was low
C3_Witness == ProfitFired /\ ev.pl = "low"

Absorbed ==
    /\ ProfitCall /\ ev.level \in {"low", "medium", "high"}
    /\ level_order[ev.level] > LevelOrder(ev.pl)
    /\ ev.t - ev.pt < cooldown

\* the stored level is above the level of the key's last message: it was stored by
\* an escalation that the cooldown suppressed
StoredByAbsorption ==
    /\ ProfitCall /\ ev.ph.last # "none"
    /\ level_order[ev.ph.last] < LevelOrder(ev.pl)

ProfitInert(f, cfg) ==
    \/ f.t \in {"none", "missing"}
    \/ f.t = "num" /\ f.v <= 0
    \/ ~cfg.alert_ranges.profit_ranges.enabled

\* C7: for a profit <= 0 or with the profit metric not enabled, check_profit
\* returns no message and leaves last_profit and last_triggered unchanged.
C7_InertProfitNoChange ==
    [][(pc = "profit" /\ pc' = "travel" /\ ProfitInert(ev'.arg, config))
          => /\ ~Truthy(ev'.ret)
             /\ last_profit' = last_profit
             /\ last_triggered' = last_triggered]_vars

\* check_profit was called with profit 0 for a key that has state
C7_Witness ==
    /\ ProfitCall /\ ProfitInert(ev.arg, config)
    /\ ev.key \in DOMAIN last_profit /\ ev.key \in DOMAIN last_triggered

\* the classification C8 states
RefLevel(profit, low, medium, high) ==
    CASE profit < low -> "none"
      [] low <= profit /\ profit < medium -> "low"
      [] medium <= profit /\ profit < high -> "medium"
      [] profit >= high -> "high"

\* float() of the configured profit thresholds
ProfitThresholds(cfg) ==
    [low |-> Float(GetField(cfg.alert_ranges.profit_ranges.low, 25)),
     medium |-> Float(GetField(cfg.alert_ranges.profit_ranges.medium, 50)),
     high |-> Float(GetField(cfg.alert_ranges.profit_ranges.high, 75))]

\* check_profit was called with a positive profit, enabled, thresholds low < medium < high
Classifies ==
    /\ ProfitCall /\ ev.arg.t = "num" /\ ev.arg.v > 0
    /\ config.alert_ranges.profit_ranges.enabled
    /\ LET th == ProfitThresholds(config)
       IN  /\ th.low.ok /\ th.medium.ok /\ th.high.ok
           /\ th.low.v < th.medium.v /\ th.medium.v < th.high.v

\* C8: the level check_profit computes for a positive profit is none below low, low
\* from low up to medium, medium from medium up to high, high from high on; it is
\* the level it stores and names in its message.
C8_LevelClassification ==
    Classifies =>
        LET th == ProfitThresholds(config)
            ref == RefLevel(ev.arg.v, th.low.v, th.medium.v, th.high.v)
        IN  /\ ev.level = ref
            /\ ref = "none" => ~Truthy(ev.ret) /\ Get(last_profit, ev.key, "none") = ev.pl
            /\ ref # "none" => Get(last_profit, ev.key, "none") = ref
            /\ Truthy(ev.ret) => ev.ret.level = Upper(ref)

\* a profit equal to the medium threshold was classified
C8_Witness ==
    /\ Classifies /\ ev.arg.v = ProfitThresholds(config).medium.v
    /\ last_profit[ev.key] = "medium"

\* C9: when check_profit emits a message, last_triggered of the key is the current
\* time and last_profit of the key is the level named in the message.
C9_FireUpdatesState ==
    ProfitFired =>
        /\ ev.key \in DOMAIN last_triggered /\ last_triggered[ev.key] = ev.t
        /\ ev.key \in DOMAIN last_profit /\ Upper(last_profit[ev.key]) = ev.ret.level

\* a message that refreshed an older timestamp of the key
C9_Witness == ProfitFired /\ ev.pt > 0 /\ ev.t > ev.pt

\* check_profit was called with the profit value of the key's last message, inside
\* the cooldown that message started
SameValueInsideCooldown ==
    /\ ProfitCall /\ ev.ph.last # "none" /\ ev.pe # -1
    /\ ev.arg.t = "num" /\ ev.arg.v = ev.ph.value
    /\ ev.t - ev.pe < cooldown

\* C10: the same profit value in two cycles inside one cooldown window produces at
\* most one message under the key.
C10_SameValueOneMessage == SameValueInsideCooldown => ~Truthy(ev.ret)

\* the value of the last message was evaluated again inside the cooldown
C10_Witness == SameValueInsideCooldown

\* the travel percent read is not negative; a missing one is 0.0
TravelNonNegative(f) == f.t = "missing" \/ (f.t = "num" /\ f.v >= 0)

\* C11: for a current travel percent >= 0, check_travel_percent_liquid returns no
\* message and changes no state entry, whatever the thresholds, the enabled flag
\* and the state before the call.
C11_NonNegativeTravelInert ==
    [][(pc = "travel" /\ pc' = "swing" /\ TravelNonNegative(ev'.arg))
          => /\ ~Truthy(ev'.ret)
             /\ last_triggered' = last_triggered
             /\ last_profit' = last_profit
             /\ last_call_triggered' = last_call_triggered]_vars

\* a travel percent of 0 was evaluated with the metric enabled, a threshold at 0
\* and timestamps already stored
C11_Witness ==
    /\ ev.op = "check_travel_percent_liquid" /\ ev.arg = Num(0)
    /\ config.alert_ranges.travel_percent_liquid_ranges = TravelOdd
    /\ DOMAIN last_triggered # {}

\* the deepest band C12 states; "" is no band
RefBand(value, low, medium, high) ==
    CASE value <= high -> "HIGH"
      [] high < value /\ value <= medium -> "MEDIUM"
      [] medium < value /\ value <= low -> "LOW"
      [] OTHER -> ""

TravelThresholds(cfg) ==
    [low |-> Float(GetField(cfg.alert_ranges.travel_percent_liquid_ranges.low, -25)),
     medium |-> Float(GetField(cfg.alert_ranges.travel_percent_liquid_ranges.medium, -50)),
     high |-> Float(GetField(cfg.alert_ranges.travel_percent_liquid_ranges.high, -75))]

\* a negative travel percent with the metric enabled and thresholds low > medium > high
SelectsBand(f, cfg) ==
    /\ f.t = "num" /\ f.v < 0
    /\ cfg.alert_ranges.travel_percent_liquid_ranges.enabled
    /\ LET th == TravelThresholds(cfg)
       IN  /\ th.low.ok /\ th.medium.ok /\ th.high.ok
           /\ th.low.v > th.medium.v /\ th.medium.v > th.high.v

\* C12: for a negative travel percent check_travel_percent_liquid selects the
\* deepest band reached (HIGH if value <= high, else MEDIUM if value <= medium,
\* else LOW if value <= low, else none); the call adds at most one message to the
\* cycle, it names that band, and no timestamp of another band is written.
C12_DeepestBandOnly ==
    [][(pc = "travel" /\ pc' = "swing" /\ SelectsBand(ev'.arg, config))
          => LET th == TravelThresholds(config)
                 ref == RefBand(ev'.arg.v, th.low.v, th.medium.v, th.high.v)
                 rec == pos @@ [current_travel_percent |-> ev'.arg]
             IN  /\ ev'.level = ref
                 /\ ref = "" => ~Truthy(ev'.ret)
                 /\ IF Truthy(ev'.ret)
                    THEN /\ ev'.ret.level = ref
                         /\ aggregated_alerts' = Append(aggregated_alerts, ev'.ret)
                    ELSE aggregated_alerts' = aggregated_alerts
                 /\ \A band \in {"LOW", "MEDIUM", "HIGH"} \ {ref} :
                        Get(last_triggered', TravelKey(rec, band), 0)
                            = Get(last_triggered, TravelKey(rec, band), 0)]_vars

\* with the default thresholds -25 / -50 / -75 a travel percent of -80 gave a HIGH
\* message
C12_Witness ==
    /\ ev.op = "check_travel_percent_liquid" /\ ev.arg = Num(-80)
    /\ config.alert_ranges.travel_percent_liquid_ranges = TravelDefault
    /\ Truthy(ev.ret) /\ ev.ret.level = "HIGH"
    /\ aggregated_alerts # <<>> /\ aggregated_alerts[Len(aggregated_alerts)] = ev.ret

\* the key of a (position, band) pair as C13 describes it: the band name is part
\* of the key
BandKey(rec, band) ==
    AssetFull(rec, "???") \o "-" \o Capitalize(rec.position_type) \o "-"
        \o PositionId(rec) \o "-travel-" \o band

\* C13: a call of check_travel_percent_liquid that reaches a band reads and writes
\* last_triggered only under the key of that (position, band) pair: it emits
\* exactly when the cooldown of that key has elapsed, whatever the timestamps of
\* the other bands are, and it changes no other entry.
C13_BandsIndependent ==
    [][(pc = "travel" /\ pc' = "swing" /\ ev'.level # "")
          => LET key == BandKey(pos, ev'.level)
             IN  /\ Truthy(ev'.ret) <=> (now - Get(last_triggered, key, 0) >= cooldown)
                 /\ \A k \in DOMAIN last_triggered' :
                        k # key => /\ k \in DOMAIN last_triggered
                                   /\ last_triggered'[k] = last_triggered[k]
                 /\ last_profit' = last_profit]_vars

\* a LOW message was emitted while the HIGH band of the same position was inside
\* its cooldown
C13_Witness ==
    /\ ev.op = "check_travel_percent_liquid" /\ Truthy(ev.ret) /\ ev.level = "LOW"
    /\ cooldown > 0
    /\ LET high == BandKey(PosBTC, "HIGH")
       IN  /\ high \in DOMAIN last_triggered
           /\ ev.t - last_triggered[high] < cooldown

\* C14: when check_travel_percent_liquid reaches a band whose key is inside its
\* cooldown it returns no message and changes no state entry (the timestamp of
\* the key is not refreshed); when the cooldown has elapsed it returns the message
\* and sets last_triggered of the key to the current time.
C14_TravelCooldown ==
    [][(pc = "travel" /\ pc' = "swing" /\ ev'.level # "")
          => IF now - Get(last_triggered, ev'.key, 0) < cooldown
             THEN /\ ~Truthy(ev'.ret)
                  /\ last_triggered' = last_triggered
                  /\ last_profit' = last_profit
                  /\ last_call_triggered' = last_call_triggered
             ELSE /\ Truthy(ev'.ret)
                  /\ last_triggered'[ev'.key] = now]_vars

\* a band was reached after its last message, inside the cooldown of its key
C14_Witness ==
    /\ ev.op = "check_travel_percent_liquid" /\ ev.level # "" /\ ~Truthy(ev.ret)
    /\ ev.key \in DOMAIN last_triggered
    /\ ev.t > ev.pt /\ ev.t - ev.pt < cooldown

\* check_swing_alert or check_blast_alert was called
ExceedCall == ev.op \in {"check_swing_alert", "check_blast_alert"}

\* the boundary C15 states for the asset of a call: the entry of the asset in the
\* section of the metric, 0 when the asset has none
Boundary(op, cfg, asset_type) ==
    LET section == IF op = "check_swing_alert"
                   THEN cfg.alert_ranges.average_daily_swing
                   ELSE cfg.alert_ranges.one_day_blast_radius
        asset == Upper(asset_type)
    IN  IF asset \in DOMAIN section THEN section[asset].v ELSE 0

\* C15: check_swing_alert and check_blast_alert emit exactly when the liquidation
\* distance is >= the boundary of the asset (0 when unset) and the cooldown of the
\* key of the metric has elapsed; on a message last_triggered of that key is the
\* current time, otherwise it keeps its value.
C15_ExceedFiresInclusive ==
    ExceedCall =>
        LET boundary == Boundary(ev.op, config, ev.cond[2])
        IN  /\ Truthy(ev.ret) <=> (ev.arg.v >= boundary /\ ev.t - ev.pt >= cooldown)
            /\ Truthy(ev.ret) => last_triggered[ev.key] = ev.t
            /\ ~Truthy(ev.ret) => Get(last_triggered, ev.key, 0) = ev.pt

\* a liquidation distance equal to the boundary 10 gave a swing message
C15_Witness ==
    /\ ev.op = "check_swing_alert" /\ Truthy(ev.ret)
    /\ ev.arg = Num(10) /\ Boundary(ev.op, config, ev.cond[2]) = 10
    /\ ev.pt > 0

\* C16: run on the same positions at the same times, with equal boundaries and
\* the same cooldown, from the empty state, check_swing_alert and
\* check_blast_alert decide alike at every step and the timestamps under the
\* swing key and the blast key of a position stay equal.
C16_SwingBlastAgree ==
    (sync /\ config.alert_ranges.average_daily_swing
                 = config.alert_ranges.one_day_blast_radius)
        => /\ ev.op = "check_blast_alert" => (Truthy(ev.ret) <=> Truthy(ev.swing))
           /\ pc # "blast" =>
                \A p \in Positions(env) :
                    Get(last_triggered, SwingKey(p), 0)
                        = Get(last_triggered, BlastKey(p), 0)

\* both evaluators emitted again for a position after its cooldown had elapsed
C16_Witness ==
    /\ sync /\ ev.op = "check_blast_alert" /\ Truthy(ev.ret) /\ Truthy(ev.swing)
    /\ ev.pt > 0 /\ cooldown > 0

\* an active price alert was evaluated with a price available
PriceTested ==
    /\ ev.op = "check_price_alerts" /\ IsActivePriceAlert(ev.alert)
    /\ ev.price_info.present /\ ev.price_info.current_price.t = "num"

\* the trigger test C17 states, on the upper-cased condition of the alert
TriggerTest(alert, price) ==
    IF Upper(alert.condition) = "ABOVE"
    THEN price >= alert.trigger_value.v
    ELSE price <= alert.trigger_value.v

\* C17: for an active price alert with a price, the test is price >= trigger value
\* for the condition ABOVE and price <= trigger value for any other condition,
\* both inclusive; a message is emitted exactly when the test holds and the
\* cooldown of the key has elapsed.
C17_PriceTriggerTest ==
    PriceTested =>
        (Truthy(ev.ret) <=> /\ TriggerTest(ev.alert, ev.price_info.current_price.v)
                            /\ ev.t - ev.pt >= cooldown)

\* an ABOVE alert with trigger 3000 gave a message at the price 3000
C17_Witness ==
    /\ PriceTested /\ Truthy(ev.ret)
    /\ Upper(ev.alert.condition) = "ABOVE" /\ ev.alert.trigger_value = Num(3000)
    /\ ev.price_info.current_price = Num(3000)

\* C18: an active price alert whose asset has no current price is skipped: no
\* error is raised, no message is added, no state entry changes, and the loop goes
\* on to the remaining price alerts of the cycle.
C18_NoPriceSkipped ==
    [][(/\ pc = "price" /\ todo' # todo
        /\ IsActivePriceAlert(ev'.alert) /\ ~ev'.price_info.present)
          => /\ ~ev'.raised /\ ~Truthy(ev'.ret)
             /\ aggregated_alerts' = aggregated_alerts
             /\ last_triggered' = last_triggered
             /\ last_profit' = last_profit
             /\ last_call_triggered' = last_call_triggered
             /\ pc' = IF todo.alerts > 1 THEN "price" ELSE "dispatch"]_vars

\* an active alert was skipped for want of a price while another alert of the
\* cycle was still to be evaluated
C18_Witness ==
    /\ ev.op = "check_price_alerts" /\ IsActivePriceAlert(ev.alert)
    /\ ~ev.price_info.present
    /\ pc = "price" /\ todo.alerts > 0 /\ DOMAIN last_triggered # {}

\* C19: alert keys are collision-free: the entries of a key are written for one
\* alert condition only, never for two distinct ones (two price alerts on the same
\* asset linked to the same position, two rows without an identifier).
C19_KeysCollisionFree == \A k \in DOMAIN owner : Cardinality(owner[k]) <= 1

\* an evaluator wrote an entry under its key
Wrote ==
    /\ ev.op \in EvaluatorOps
    /\ \/ Truthy(ev.ret)
       \/ ev.op = "check_profit" /\ ev.level \in {"low", "medium", "high"}

\* C20: an evaluator changes only the entries of its own condition: the entry it
\* writes was never written by the evaluation of another metric kind or of
\* another position.
C20_OwnEntriesOnly == Wrote => ev.po \subseteq {ev.cond}

(***************************************************************************)
(* C21: alert state only grows.  Across cycles and reloads of the          *)
(* configuration, a key that is in last_triggered, last_profit or          *)
(* last_call_triggered is never removed from it.                           *)
(***************************************************************************)
C21_StateOnlyGrows ==
    [][ /\ DOMAIN last_triggered \subseteq DOMAIN last_triggered'
        /\ DOMAIN last_profit \subseteq DOMAIN last_profit'
        /\ DOMAIN last_call_triggered \subseteq DOMAIN last_call_triggered' ]_vars

\* a reload of the configuration with entries in all three dictionaries
C21_Witness ==
    /\ ev.op = "reload_config"
    /\ DOMAIN last_triggered # {}
    /\ DOMAIN last_profit # {}
    /\ DOMAIN last_call_triggered # {}

(***************************************************************************)
(* C22: a cycle in which no evaluator fired makes no call to the           *)
(* dispatcher; a cycle in which at least one evaluator fired makes exactly *)
(* one send_call, with the key "aggregated-alert" and a body that begins   *)
(* with the number of fired messages, followed by the messages.            *)
(***************************************************************************)
\* the messages of the history of a cycle
Fired(c) == [i \in 1..Len(c.log) |-> c.log[i].msg]

\* the part of C22 about the cycles that reach the end of check_alerts: the step
\* that ends the cycle calls send_call when a message was returned to the cycle
\* and only then, once, with the fixed key and the count and the messages in the
\* body, and no other step calls it
CompletedCycleDispatchesOnce ==
    [][ /\ (pc = "dispatch" /\ pc' # "dispatch") =>
              IF cyc.log = <<>>
              THEN /\ ev'.op = "no_alerts"
                   /\ UNCHANGED <<last_call_triggered, calls>>
              ELSE /\ ev'.op = "send_call"
                   /\ ev'.key = "aggregated-alert"
                   /\ ev'.body.count = Len(cyc.log)
                   /\ ev'.body.lines = Fired(cyc)
                   /\ DOMAIN last_call_triggered' \subseteq {"aggregated-alert"}
        /\ (pc # "dispatch" \/ pc' = "dispatch") =>
              /\ UNCHANGED <<last_call_triggered, calls>>
              /\ (ev' # ev => ev'.op # "send_call") ]_vars

\* C22, for every cycle: a cycle that ended without a call of send_call had no
\* message returned to it by an evaluator, and a call of send_call bears the fixed
\* key and a body with the count of its messages
C22_FiringCycleDispatchesOnce ==
    /\ pc = "raised" => cyc.log = <<>>
    /\ ev.op = "send_call" =>
          /\ ev.key = "aggregated-alert"
          /\ ev.body.lines # <<>>
          /\ ev.body.count = Len(ev.body.lines)

(***************************************************************************)
(* C23: the aggregated message list of a cycle is in evaluation order: for *)
(* each position in snapshot order its profit, travel, swing and blast     *)
(* messages, those that fired, in that order, then the price-alert         *)
(* messages in alert order; no fired message is dropped or duplicated.     *)
(***************************************************************************)
\* the place of a call in a cycle comes before the place of another one
Before(a, b) ==
    \/ a.stage < b.stage
    \/ a.stage = b.stage /\ a.ord < b.ord
    \/ a.stage = b.stage /\ a.ord = b.ord /\ a.rank < b.rank

\* the kind of message each call of the cycle returns
KindAt(stage, rank) ==
    IF stage = 2 THEN "Price ALERT"
    ELSE CASE rank = 1 -> "Profit ALERT"
           [] rank = 2 -> "Travel Percent Liquid ALERT"
           [] rank = 3 -> "Average Daily Swing ALERT"
           [] OTHER -> "One Day Blast Radius ALERT"

\* while a cycle runs, its list holds the messages returned to it so far, one
\* entry per message, in the order of the calls that returned them
C23_EvaluationOrder ==
    pc \notin {"idle", "raised"} =>
        /\ aggregated_alerts = Fired(cyc)
        /\ \A i \in 1..Len(cyc.log) :
              /\ cyc.log[i].msg.kind = KindAt(cyc.log[i].stage, cyc.log[i].rank)
              /\ i < Len(cyc.log) => Before(cyc.log[i], cyc.log[i + 1])

\* the end of a cycle over two positions and a price alert in which all the
\* evaluators fired
C23_Witness ==
    /\ pc = "dispatch"
    /\ Len(aggregated_alerts) = 9
    /\ aggregated_alerts[1].kind = "Profit ALERT"
    /\ aggregated_alerts[5].kind = "Profit ALERT"
    /\ aggregated_alerts[5] # aggregated_alerts[1]
    /\ aggregated_alerts[9].kind = "Price ALERT"

(***************************************************************************)
(* C24: a malformed numeric field in one record (profit, travel percent,   *)
(* liquidation distance, trigger value or current price that is not a      *)
(* number) does not abort the cycle: what remains of the cycle is still    *)
(* evaluated.                                                              *)
(***************************************************************************)
\* a field that is there and is not a number
Malformed(f) == f.t \in {"bad", "none"}

\* no cycle is left by an exception, and no call that met a malformed field
\* raised one
C24_MalformedFieldNoAbort ==
    /\ pc # "raised"
    /\ (ev.op = "check_price_alerts" /\ Malformed(ev.price_info.current_price))
          => ~ev.raised

(***************************************************************************)
(* C25: end to end from the empty state, one cycle over one position (BTC, *)
(* LONG, profit 80, profit thresholds 25/50/75 enabled, cooldown 0,        *)
(* nothing else supplied) and one active price alert (ETH, ABOVE, trigger  *)
(* 3000, price 3100) collects exactly two messages, the profit HIGH        *)
(* message and the price message, and its dispatch bears a body that       *)
(* starts with "2 alerts triggered".                                       *)
(***************************************************************************)
C25_EndToEndTwoMessages ==
    (env = "e2e" /\ pc = "dispatch" /\ cyc.fresh) =>
        /\ Len(aggregated_alerts) = 2
        /\ aggregated_alerts[1].kind = "Profit ALERT"
        /\ aggregated_alerts[1].level = "HIGH"
        /\ aggregated_alerts[2].kind = "Price ALERT"
        /\ AggregateBody(aggregated_alerts, "").count = 2
        /\ AggregateBody(aggregated_alerts, "").text = " alerts triggered"

(***************************************************************************)
(* C26: a failure of the notification transport inside send_call is caught *)
(* and does not propagate: check_alerts returns normally and the           *)
(* per-condition state computed by the cycle is kept, whatever the outcome *)
(* of the dispatch.                                                        *)
(***************************************************************************)
\* the step that ends a cycle with a send that failed returns to the loop of
\* run() without an exception, and leaves last_triggered and last_profit as
\* the evaluators of the cycle left them
C26_TransportFailureCaught ==
    [][ (pc = "dispatch" /\ pc' # "dispatch" /\ ev'.op = "send_call"
         /\ ev'.attempted /\ ~ev'.sent) =>
            /\ pc' = "idle"
            /\ ~ev'.raised
            /\ UNCHANGED <<last_triggered, last_profit>> ]_vars

\* a cycle that wrote per-condition state has ended with a failed send
C26_Witness ==
    /\ ev.op = "send_call"
    /\ ev.attempted
    /\ ~ev.sent
    /\ pc = "idle"
    /\ \E k \in DOMAIN last_triggered : last_triggered[k] = ev.t
    /\ DOMAIN last_profit # {}

(***************************************************************************)
(* C27: no advance on failure.  When the transport send fails,             *)
(* last_call_triggered of the aggregate key is left unchanged, so the next *)
(* cycle with an alert attempts the send again instead of being suppressed *)
(* by the refractory window; the timestamp is advanced only after a        *)
(* successful send.                                                        *)
(***************************************************************************)
\* the time the refractory window of a call of send_call is counted from, were
\* it counted from successful sends only
LastSuccess(e) == IF e.ps = -1 THEN 0 ELSE e.ps

\* after a call of send_call the entry of its key is the time of the call when
\* the send succeeded and is what it was when it did not; the send had been
\* attempted exactly when the refractory period had passed since the last
\* successful send, failed attempts in between not counting
C27_NoAdvanceOnFailure ==
    ev.op = "send_call" =>
        /\ ev.sent => (ev.attempted /\ Get(last_call_triggered, ev.key, 0) = ev.t)
        /\ ~ev.sent => Get(last_call_triggered, ev.key, 0) = ev.pt
        /\ ev.pt = LastSuccess(ev)
        /\ ev.attempted <=> (ev.t - LastSuccess(ev) >= call_refractory_period)

\* a send that failed after an earlier one had succeeded: the entry is still the
\* time of the earlier one
C27_Witness ==
    /\ ev.op = "send_call"
    /\ ev.attempted
    /\ ~ev.sent
    /\ ev.ps # -1
    /\ last_call_triggered[ev.key] = ev.ps
    /\ ev.ps < ev.t

(***************************************************************************)
(* C28: the dispatch refractory timer and the per-condition cooldown       *)
(* timers are separate namespaces: send_call reads and writes only         *)
(* last_call_triggered, never last_triggered or last_profit; the           *)
(* evaluators never touch last_call_triggered; and whether a message       *)
(* enters the aggregate does not depend on last_call_triggered.            *)
(***************************************************************************)
\* the steps of check_alerts that call an evaluator
EvaluatorStep == pc \in {"profit", "travel", "swing", "blast", "price"} /\ pc' # pc

\* the step that ends a cycle leaves last_triggered and last_profit alone, the
\* evaluators and the reload leave last_call_triggered alone, no key is in both
\* namespaces, and every message an evaluator returns enters the list, with
\* the refractory window running or not
C28_SeparateNamespaces ==
    [][ /\ (pc = "dispatch" /\ pc' # "dispatch") =>
              UNCHANGED <<last_triggered, last_profit>>
        /\ (EvaluatorStep \/ pc = "idle") => UNCHANGED last_call_triggered
        /\ DOMAIN last_call_triggered' \cap
              (DOMAIN last_triggered' \cup DOMAIN last_profit') = {}
        /\ EvaluatorStep =>
              (Truthy(ev'.ret) <=> Len(aggregated_alerts') = Len(aggregated_alerts) + 1)
      ]_vars

\* an evaluator fires while the refractory window of the dispatcher is running
C28_Witness ==
    /\ ev.op = "check_swing_alert"
    /\ Truthy(ev.ret)
    /\ "aggregated-alert" \in DOMAIN last_call_triggered
    /\ ev.t - last_call_triggered["aggregated-alert"] < call_refractory_period

(***************************************************************************)
(* C29: configuration error handling.  When the thresholds of a metric     *)
(* kind (profit, travel percent, the per-asset swing / blast boundary) are *)
(* missing or malformed, the kind is treated as disabled for the cycle: it *)
(* emits no message and changes no state for any position.                 *)
(***************************************************************************)
\* the thresholds a call of an evaluator reads from cfg for a row of asset
KindThresholds(kind, cfg, asset) ==
    LET r == cfg.alert_ranges
        of_asset(sec) == IF asset \in DOMAIN sec THEN sec[asset] ELSE MissingV
    IN  CASE kind = "profit" ->
               {r.profit_ranges.low, r.profit_ranges.medium, r.profit_ranges.high}
          [] kind = "travel" ->
               {r.travel_percent_liquid_ranges.low, r.travel_percent_liquid_ranges.medium,
                r.travel_percent_liquid_ranges.high}
          [] kind = "swing" -> {of_asset(r.average_daily_swing)}
          [] OTHER -> {of_asset(r.one_day_blast_radius)}

\* cfg with every threshold that is missing written out as the default the code
\* reads in its place
OrDefault(f, d) == IF f.t = "missing" THEN Num(d) ELSE f

Ranges(sec, lo, me, hi) ==
    [enabled |-> sec.enabled, low |-> OrDefault(sec.low, lo),
     medium |-> OrDefault(sec.medium, me), high |-> OrDefault(sec.high, hi)]

Boundaries(sec) == [a \in {"BTC", "ETH"} |-> IF a \in DOMAIN sec THEN sec[a] ELSE Num(0)]

WithDefaults(cfg) ==
    [cfg EXCEPT !.alert_ranges =
        [profit_ranges |-> Ranges(@.profit_ranges, 25, 50, 75),
         travel_percent_liquid_ranges |->
             Ranges(@.travel_percent_liquid_ranges, -25, -50, -75),
         average_daily_swing |-> Boundaries(@.average_daily_swing),
         one_day_blast_radius |-> Boundaries(@.one_day_blast_radius)]]

\* the name of the evaluator called at each place of the loop
EvaluatorOp(kind) ==
    CASE kind = "profit" -> "check_profit"
      [] kind = "travel" -> "check_travel_percent_liquid"
      [] kind = "swing" -> "check_swing_alert"
      [] OTHER -> "check_blast_alert"

MetricKinds == {"profit", "travel", "swing", "blast"}

\* C29 as amended: a call of an evaluator whose kind has a threshold that is
\* there and is not a number returns no message and changes no state; a
\* threshold that is missing is read as its default (25 / 50 / 75 for profit,
\* -25 / -50 / -75 for travel percent, 0 for a boundary), and the call returns
\* what it returns under the configuration with the defaults written out
C29_MalformedThresholdsDisable ==
    [][ \A k \in MetricKinds :
          (pc = k /\ pc' # pc) =>
            LET row == IF k = "profit" THEN pos' ELSE pos
                asset == AssetCode(row, "???")
                dflt == WithDefaults(config)
            IN  /\ (\E f \in KindThresholds(k, config, asset) : Malformed(f)) =>
                      /\ ev'.ret = NoMsg
                      /\ UNCHANGED <<last_triggered, last_profit, last_call_triggered,
                                     aggregated_alerts>>
                /\ k = "profit" =>
                      ev'.ret = check_profit(row @@ [profit |-> ev'.arg], dflt, cooldown,
                                             last_profit, last_triggered, now).ret
                /\ k = "travel" =>
                      ev'.ret = check_travel_percent_liquid(
                                    row @@ [current_travel_percent |-> ev'.arg], dflt,
                                    cooldown, last_triggered, now).ret
                /\ k = "swing" =>
                      ev'.ret = check_swing_alert(row, dflt, cooldown, last_triggered,
                                                  now).ret
                /\ k = "blast" =>
                      ev'.ret = check_blast_alert(row, dflt, cooldown, last_triggered,
                                                  now).ret ]_vars

\* a profit of 80 met an enabled profit section with a threshold that is not a
\* number, and nothing fired
C29_Witness ==
    /\ ev.op = "check_profit"
    /\ ev.arg = Num(80)
    /\ config.alert_ranges.profit_ranges.enabled
    /\ \E f \in KindThresholds("profit", config, "BTC") : Malformed(f)
    /\ ev.ret = NoMsg
    /\ last_profit = EmptyDict

\* C29 as stated: after a call of an evaluator whose kind has a threshold that
\* is missing or malformed, no message was returned and the entry of the key of
\* the call is what it was
C29_MissingOrMalformedDisable ==
    \A k \in MetricKinds :
        (/\ ev.op = EvaluatorOp(k)
         /\ \E f \in KindThresholds(k, config, Upper(ev.cond[2])) :
               Malformed(f) \/ f.t = "missing")
        => /\ ev.ret = NoMsg
           /\ Get(last_triggered, ev.key, 0) = ev.pt

(***************************************************************************)
(* C30: field conversion error handling.  When a metric field of a record  *)
(* (profit, travel percent, liquidation distance, trigger value of a price *)
(* alert) is missing or not a number, that metric of that record is        *)
(* skipped: it emits no message and changes no state, and is not evaluated *)
(* with a value put in its place.                                          *)
(***************************************************************************)
\* a field that is missing or not a number
Unusable(f) == Malformed(f) \/ f.t = "missing"

\* the metric field the last call read, for the calls of the evaluators
FieldRead ==
    IF ev.op = "check_price_alerts" THEN ev.alert.trigger_value ELSE ev.arg

C30_UnusableFieldSkipsMetric ==
    (/\ ev.op \in {"check_profit", "check_travel_percent_liquid", "check_swing_alert",
                   "check_blast_alert", "check_price_alerts"}
     /\ Unusable(FieldRead))
    => /\ ev.ret = NoMsg
       /\ Get(last_triggered, ev.key, 0) = ev.pt

(***************************************************************************)
(* C31: liveness of the polling loop.  Under any combination of malformed  *)
(* records, missing prices, configuration errors and dispatch failures, no *)
(* cycle terminates the loop of run(): after every cycle a next cycle is   *)
(* eventually started.                                                     *)
(***************************************************************************)
\* a step of the loop of run(): a cycle is started, or the running one goes on
RunStep ==
    \/ CheckAlertsStart
    \/ CheckProfit
    \/ CheckTravel
    \/ CheckSwing
    \/ CheckBlast
    \/ CheckPriceAlert
    \/ Dispatch

\* the loop of run() is never over: in every state it has a step to take
C31_LoopNeverTerminates == ENABLED RunStep

(***************************************************************************)
(* C32: two invocations of check_alerts on the same AlertManager never     *)
(* race on a key: the test of last_triggered / last_profit and the write   *)
(* that follows behave as one atomic step, so two interleaved cycles       *)
(* cannot both emit a message for the same key within one cooldown window, *)
(* nor both dispatch within one refractory window.                         *)
(***************************************************************************)
\* a message the second invocation has just emitted comes a cooldown or more after
\* the last message under its key, and a send it has just made a refractory
\* period or more after the last send, whichever invocation made them
C32_NoRaceOnKey ==
    /\ (od.pc = "call_read" /\ Truthy(od.ret) /\ od.pe # -1)
          => od.t - od.pe >= cooldown
    /\ (od.pc = "idle" /\ od.sent /\ od.ps # -1)
          => od.t - od.ps >= call_refractory_period

(***************************************************************************)
(* C33: no stale thresholds across a reload.  After reload_config every    *)
(* evaluation uses the thresholds, the enabled flags, the cooldown and the *)
(* call refractory period of the reloaded configuration, never values read *)
(* before the reload.                                                      *)
(***************************************************************************)
\* the level check_profit reaches for a positive profit under a configuration
LevelUnder(cfg, profit) ==
    LET th == ProfitThresholds(cfg)
    IN  IF ~cfg.alert_ranges.profit_ranges.enabled THEN "skip"
        ELSE RefLevel(profit, th.low.v, th.medium.v, th.high.v)

\* self.config is the configuration the last reload loaded, and every call since
\* is as that configuration wants it: the level of a profit by its thresholds and
\* its enabled flag, a message only when its cooldown has passed, a send tried
\* exactly when its refractory period has passed
C33_NoStaleAfterReload ==
    /\ ev.op = "reload_config" => config = ev.loaded
    /\ (ProfitCall /\ ev.arg.t = "num" /\ ev.arg.v > 0)
          => ev.level = LevelUnder(config, ev.arg.v)
    /\ Emitted => ev.t - ev.pt >= config.alert_cooldown_seconds
    /\ ev.op = "send_call"
          => (ev.attempted <=> ev.t - ev.pt >= config.call_refractory_period)

\* an engine constructed under thresholds 25 / 50 / 75 emits a message for a profit
\* of 24, by the thresholds 24 / 49 / 74 of a reload
C33_Witness ==
    /\ ProfitFired
    /\ ev.arg = Num(24)
    /\ twilio_config = "ok"
    /\ ProfitThresholds(config).low.v = 24

(***************************************************************************)
(* C34: only alert definitions whose kind is PRICE_THRESHOLD and whose     *)
(* status is active are evaluated: an inactive definition, or one of       *)
(* another kind, never produces a message and never creates or changes a   *)
(* state entry, whatever the price.                                        *)
(***************************************************************************)
\* an alert definition of kind PRICE_THRESHOLD with status active, in any case
ActiveDefinition(a) ==
    a.alert_type = "PRICE_THRESHOLD" /\ a.status \in {"active", "Active", "ACTIVE"}

\* the step of check_price_alerts that takes the next row of get_alerts()
AlertRowStep == pc = "price" /\ todo'.alerts = todo.alerts - 1

C34_OnlyActivePriceAlerts ==
    [][ (AlertRowStep /\ ~ActiveDefinition(ev'.alert)) =>
            /\ ev'.ret = NoMsg
            /\ ~ev'.raised
            /\ UNCHANGED <<last_triggered, last_profit, last_call_triggered,
                           aggregated_alerts>> ]_vars

\* an active definition of another kind met a price at its trigger value
C34_Witness ==
    /\ ev.op = "check_price_alerts"
    /\ ev.alert.alert_type # "PRICE_THRESHOLD"
    /\ ev.alert.status = "Active"
    /\ ev.price_info.present
    /\ ev.price_info.current_price.v >= ev.alert.trigger_value.v
    /\ ev.ret = NoMsg

\* the levels check_profit stores
StoredLevels == {"low", "medium", "high"}

\* C35: the stored profit level follows the latest computed level: a call of
\* check_profit that computes low, medium or high leaves that level in
\* last_profit of the key, also when it is below the level stored before; a call
\* that computes no such level (profit below low, profit <= 0) leaves last_profit
\* of the key as it was; every stored level is low, medium or high, never none.
C35_StoredLevelFollows ==
    /\ \A k \in DOMAIN last_profit : last_profit[k] \in StoredLevels
    /\ (ProfitCall /\ ev.level \in StoredLevels) =>
           /\ ev.key \in DOMAIN last_profit
           /\ last_profit[ev.key] = ev.level
    /\ (ProfitCall /\ ev.level \notin StoredLevels) =>
           /\ Get(last_profit, ev.key, "none") = ev.pl
           /\ (ev.key \in DOMAIN last_profit) = (ev.pl \in StoredLevels)

\* a computed level below the stored one replaced it
C35_Witness ==
    /\ ProfitCall /\ ev.level \in StoredLevels /\ ev.pl \in StoredLevels
    /\ level_order[ev.level] < level_order[ev.pl]
    /\ last_profit[ev.key] = ev.level

\* a profit below the low threshold left a stored level in place
C35_WitnessNone ==
    /\ ProfitCall /\ ev.level = "none" /\ ev.arg.t = "num" /\ ev.arg.v > 0
    /\ ev.pl \in StoredLevels /\ last_profit[ev.key] = ev.pl


\* a step of check_alerts that evaluates one condition: one evaluator call for a
\* position, or one row of check_price_alerts
ConditionStep ==
    /\ pc \in {"profit", "travel", "swing", "blast", "price"}
    /\ ev'.op \in EvaluatorOps
    /\ (pc' # pc \/ todo' # todo)

\* C36: last_triggered is written exactly in the steps that emit a message: an
\* evaluator step that returns a message sets last_triggered of its key to the
\* current time and changes no other entry; a step that returns no message
\* (below threshold, disabled, inside the cooldown, profit not escalating)
\* leaves last_triggered unchanged.
C36_StampedExactlyOnEmit ==
    [][ConditionStep =>
          IF Truthy(ev'.ret)
          THEN last_triggered' = Put(last_triggered, ev'.key, now)
          ELSE last_triggered' = last_triggered]_vars

\* a swing message was suppressed by the cooldown of its key, whose timestamp
\* stayed that of the earlier message
C36_Witness ==
    /\ ev.op = "check_swing_alert" /\ ~Truthy(ev.ret)
    /\ ev.pe # -1 /\ ev.t > ev.pe /\ ev.t - ev.pe < cooldown
    /\ last_triggered[ev.key] = ev.pe


\* no aggregate was sent since time t
NothingSentSince(t) == Get(calls, "aggregated-alert", -1) < t

\* C37: the state the evaluators of a cycle wrote is not taken back when the
\* dispatch of the cycle is suppressed by the refractory window or fails: the
\* step leaves last_triggered and last_profit as they were, every key keeps the
\* time of its last message, and a message whose aggregate was never sent is
\* emitted again only when the cooldown of its key has elapsed and, for profit,
\* the level is above the stored one.
C37_NoRollbackOnFailedDispatch ==
    /\ [][ (pc = "dispatch" /\ ev'.op = "send_call" /\ ~ev'.sent) =>
              UNCHANGED <<last_triggered, last_profit>> ]_vars
    /\ [](\A k \in DOMAIN emitted :
              k \in DOMAIN last_triggered /\ last_triggered[k] = emitted[k])
    /\ []((Emitted /\ ev.pe # -1 /\ NothingSentSince(ev.pe)) =>
              /\ ev.t - ev.pe >= cooldown
              /\ ProfitCall => level_order[ev.level] > LevelOrder(ev.pl))

\* a key whose message was never sent has emitted again, in a later cycle
C37_Witness ==
    /\ ProfitFired /\ ev.pe # -1 /\ NothingSentSince(ev.pe)
    /\ ev.t > ev.pe /\ cooldown > 0


\* C38: send_call invoked for a key less than call_refractory_period after the
\* last successful send of that key returns without attempting the transport and
\* leaves last_call_triggered as it was, the entry of the key still the time of
\* that send; the suppressed attempt does not extend the window: a call made
\* call_refractory_period or more after the last successful send is attempted.
C38_SuppressedSendInert ==
    /\ [][ (pc = "dispatch" /\ ev'.op = "send_call" /\ ev'.ps # -1
             /\ now - ev'.ps < call_refractory_period) =>
                /\ ~ev'.attempted /\ ~ev'.sent /\ ~ev'.raised
                /\ UNCHANGED <<last_call_triggered, calls>>
                /\ last_call_triggered'[ev'.key] = ev'.ps ]_vars
    /\ []((ev.op = "send_call" /\ ev.ps # -1
            /\ ev.t - ev.ps >= call_refractory_period) => ev.attempted)

\* a send was suppressed inside the window of an earlier successful send
C38_Witness ==
    /\ ev.op = "send_call" /\ ~ev.attempted
    /\ ev.ps # -1 /\ ev.t > ev.ps
    /\ ev.t - ev.ps < call_refractory_period
    /\ last_call_triggered[ev.key] = ev.ps

\* a send was attempted once the window of the last successful send had passed,
\* a suppressed attempt lying in between
C38_WitnessAfter ==
    /\ ev.op = "send_call" /\ ev.attempted /\ ev.ps # -1
    /\ call_refractory_period > 1
    /\ ev.t - ev.ps = call_refractory_period


\* C39: with monitor_enabled false check_alerts is a no-op: the call returns at
\* once, evaluates no position and no price alert, sends nothing and leaves
\* last_profit, last_triggered and last_call_triggered unchanged.
C39_DisabledMonitorNoOp ==
    /\ [][ (pc = "idle" /\ ev'.op = "check_alerts" /\ ~monitor_enabled) =>
              /\ pc' = "idle"
              /\ UNCHANGED <<last_profit, last_triggered, last_call_triggered,
                             aggregated_alerts, todo, emitted, calls>> ]_vars
    /\ [](~monitor_enabled =>
              /\ pc = "idle"
              /\ ev.op \notin EvaluatorOps \cup {"send_call"}
              /\ emitted = EmptyDict /\ calls = EmptyDict)

\* check_alerts was called with monitoring disabled, the configuration in use
\* holding readings that would fire
C39_Witness ==
    /\ ev.op = "check_alerts" /\ ~ev.enabled /\ ~monitor_enabled
    /\ config.alert_ranges.profit_ranges.enabled
    /\ now > StartTime


\* C40: reload_config replaces the configuration, the cooldown and the call
\* refractory period by those of the file and nothing else: last_profit,
\* last_triggered and last_call_triggered are unchanged, and monitor_enabled and
\* the transport configuration stay what the constructor captured, whatever the
\* file now holds.
C40_ReloadFrame ==
    [][ (pc = "idle" /\ ev'.op = "reload_config") =>
          /\ config' = ev'.loaded
          /\ cooldown' = ev'.loaded.alert_cooldown_seconds
          /\ call_refractory_period' = ev'.loaded.call_refractory_period
          /\ UNCHANGED <<last_profit, last_triggered, last_call_triggered,
                         monitor_enabled, twilio_config>> ]_vars

\* a reload installed a configuration whose monitor switch and transport section
\* differ from the ones in use, while timers and a stored level were present
C40_Witness ==
    /\ ev.op = "reload_config"
    /\ monitor_enabled /\ ~config.alert_monitor_enabled
    /\ twilio_config = "ok" /\ config.twilio_config = "missing"
    /\ last_profit # EmptyDict /\ last_triggered # EmptyDict
    /\ last_call_triggered # EmptyDict


====
